---- MODULE Spec2Model ----
(***************************************************************************)
(* A model of the falling-block engine: Board, Piece, PieceGenerator,      *)
(* Store/EventBus (as the action layer uses them, and on their own with    *)
(* their subscribers), GameActions, InputHandler, GameLoop and             *)
(* GameController.                                                         *)
(*                                                                         *)
(* The Store's state is the record `state` (setState is a record merge);   *)
(* the Board object the state refers to is mutated in place by the code,   *)
(* so its grid is the separate variable `grid`.  GameState.lastDropTime is *)
(* written with Date.now() and never read by any source file; it is left   *)
(* out of the record.                                                      *)
(*                                                                         *)
(* Time is the variable `now`, in ms.  The code reads it as Date.now()     *)
(* (InputHandler), as performance.now() (GameLoop.start and reset) and as  *)
(* the timestamp of the frame (GameLoop.loop); only differences of         *)
(* readings of the same clock are ever used, and the model takes the       *)
(* clocks to advance together.  A handler runs at one instant.             *)
(***************************************************************************)
EXTENDS Integers, Sequences, FiniteSets, TLC

(***************************************************************************)
(* Bounds of the model.                                                    *)
(***************************************************************************)
\* Board(width, height): the model instantiates a reduced board.
BOARD_WIDTH == 5
BOARD_HEIGHT == 7
\* Calls that change the program's state, explored from an initial state.
MaxCalls == 4
\* In the game specification Math.random() is drawn from
\* { k / 7 : k \in 0..MaxRandom } (7 = the number of piece types).
MaxRandom == 0

\* The events (key events, frames, button clicks) of a run of the controller.
MaxEvents == 4

\* The keys held down at the same time.
MaxKeys == 1

\* The time in ms up to which the frames of a game left to gravity are
\* followed.
MaxTime == 200000

(***************************************************************************)
(* constants.ts                                                            *)
(***************************************************************************)
PieceTypeValues == << "I", "O", "T", "S", "Z", "J", "L" >>

PieceTypes == { PieceTypeValues[i] : i \in 1..Len(PieceTypeValues) }

ShapeI ==
    << << <<0,0,0,0>>, <<1,1,1,1>>, <<0,0,0,0>>, <<0,0,0,0>> >>,
       << <<0,0,1,0>>, <<0,0,1,0>>, <<0,0,1,0>>, <<0,0,1,0>> >>,
       << <<0,0,0,0>>, <<0,0,0,0>>, <<1,1,1,1>>, <<0,0,0,0>> >>,
       << <<0,1,0,0>>, <<0,1,0,0>>, <<0,1,0,0>>, <<0,1,0,0>> >> >>

ShapeO ==
    << << <<0,0,0,0>>, <<0,1,1,0>>, <<0,1,1,0>>, <<0,0,0,0>> >>,
       << <<0,0,0,0>>, <<0,1,1,0>>, <<0,1,1,0>>, <<0,0,0,0>> >>,
       << <<0,0,0,0>>, <<0,1,1,0>>, <<0,1,1,0>>, <<0,0,0,0>> >>,
       << <<0,0,0,0>>, <<0,1,1,0>>, <<0,1,1,0>>, <<0,0,0,0>> >> >>

ShapeT ==
    << << <<0,0,0,0>>, <<0,1,0,0>>, <<1,1,1,0>>, <<0,0,0,0>> >>,
       << <<0,0,0,0>>, <<0,1,0,0>>, <<0,1,1,0>>, <<0,1,0,0>> >>,
       << <<0,0,0,0>>, <<0,0,0,0>>, <<1,1,1,0>>, <<0,1,0,0>> >>,
       << <<0,0,0,0>>, <<0,1,0,0>>, <<1,1,0,0>>, <<0,1,0,0>> >> >>

ShapeS ==
    << << <<0,0,0,0>>, <<0,1,1,0>>, <<1,1,0,0>>, <<0,0,0,0>> >>,
       << <<0,0,0,0>>, <<0,1,0,0>>, <<0,1,1,0>>, <<0,0,1,0>> >>,
       << <<0,0,0,0>>, <<0,0,0,0>>, <<0,1,1,0>>, <<1,1,0,0>> >>,
       << <<0,0,0,0>>, <<1,0,0,0>>, <<1,1,0,0>>, <<0,1,0,0>> >> >>

ShapeZ ==
    << << <<0,0,0,0>>, <<1,1,0,0>>, <<0,1,1,0>>, <<0,0,0,0>> >>,
       << <<0,0,0,0>>, <<0,0,1,0>>, <<0,1,1,0>>, <<0,1,0,0>> >>,
       << <<0,0,0,0>>, <<0,0,0,0>>, <<1,1,0,0>>, <<0,1,1,0>> >>,
       << <<0,0,0,0>>, <<0,1,0,0>>, <<1,1,0,0>>, <<1,0,0,0>> >> >>

ShapeJ ==
    << << <<0,0,0,0>>, <<1,0,0,0>>, <<1,1,1,0>>, <<0,0,0,0>> >>,
       << <<0,0,0,0>>, <<0,1,1,0>>, <<0,1,0,0>>, <<0,1,0,0>> >>,
       << <<0,0,0,0>>, <<0,0,0,0>>, <<1,1,1,0>>, <<0,0,1,0>> >>,
       << <<0,0,0,0>>, <<0,1,0,0>>, <<0,1,0,0>>, <<1,1,0,0>> >> >>

ShapeL ==
    << << <<0,0,0,0>>, <<0,0,1,0>>, <<1,1,1,0>>, <<0,0,0,0>> >>,
       << <<0,0,0,0>>, <<0,1,0,0>>, <<0,1,0,0>>, <<0,1,1,0>> >>,
       << <<0,0,0,0>>, <<0,0,0,0>>, <<1,1,1,0>>, <<1,0,0,0>> >>,
       << <<0,0,0,0>>, <<1,1,0,0>>, <<0,1,0,0>>, <<0,1,0,0>> >> >>

\* PIECE_SHAPES[type][rotation + 1][row + 1][col + 1]
PIECE_SHAPES ==
    [ I |-> ShapeI, O |-> ShapeO, T |-> ShapeT, S |-> ShapeS,
      Z |-> ShapeZ, J |-> ShapeJ, L |-> ShapeL ]

SPAWN_X == (BOARD_WIDTH \div 2) - 2

SPAWN_Y == 0

\* JavaScript's NaN (the result of arithmetic on an undefined table entry).
NaN == 0 - 1

\* SCORE_VALUES[lines]; an index outside the table reads undefined.
SCORE_VALUES(n) ==
    CASE n = 0 -> 0
      [] n = 1 -> 100
      [] n = 2 -> 300
      [] n = 3 -> 500
      [] n = 4 -> 800
      [] OTHER -> NaN

SOFT_DROP_SCORE == 1

HARD_DROP_SCORE == 2

LINES_PER_LEVEL == 10

INITIAL_DROP_INTERVAL == 1000

MIN_DROP_INTERVAL == 100

DROP_INTERVAL_DECREASE == 50

DAS_DELAY == 170

ARR_INTERVAL == 50

KeyCode ==
    [ LEFT |-> "ArrowLeft", RIGHT |-> "ArrowRight", DOWN |-> "ArrowDown",
      UP |-> "ArrowUp", SPACE |-> "Space", Z |-> "KeyZ", X |-> "KeyX",
      C |-> "KeyC", P |-> "KeyP", ESCAPE |-> "Escape", A |-> "KeyA",
      D |-> "KeyD", S |-> "KeyS", W |-> "KeyW", SHIFT |-> "ShiftLeft",
      CTRL |-> "ControlLeft" ]

\* JavaScript + and * on numbers one of which may be NaN.
Plus(a, b) == IF a = NaN \/ b = NaN THEN NaN ELSE a + b

Times(a, b) == IF a = NaN \/ b = NaN THEN NaN ELSE a * b

(***************************************************************************)
(* Piece.ts                                                                *)
(***************************************************************************)
\* null (no piece)
Null == [type |-> "null", rotation |-> 0]

\* new Piece(type)
Piece(type) == [type |-> type, rotation |-> 0]

\* piece.type.charCodeAt(0), the tag placePiece writes
CharCode(type) ==
    CASE type = "I" -> 73
      [] type = "J" -> 74
      [] type = "L" -> 76
      [] type = "O" -> 79
      [] type = "S" -> 83
      [] type = "T" -> 84
      [] type = "Z" -> 90

GetShape(piece) == PIECE_SHAPES[piece.type][piece.rotation + 1]

PieceRotate(piece, direction) ==
    IF direction = "clockwise"
    THEN [piece EXCEPT !.rotation = (piece.rotation + 1) % 4]
    ELSE [piece EXCEPT !.rotation = (piece.rotation + 3) % 4]

\* The (row, col) pairs in the order of the loops "for row ... for col ..."
\* of isValidPosition and placePiece.
RowCol == [ i \in 1..16 |-> << (i - 1) \div 4, (i - 1) % 4 >> ]

\* The pairs those loops act on: the ones with shape[row][col] !== 0.
FilledCells ==
    [ t \in PieceTypes |->
        [ r \in 0..3 |->
            SelectSeq(RowCol,
                      LAMBDA rc : PIECE_SHAPES[t][r + 1][rc[1] + 1][rc[2] + 1] # 0) ] ]

(***************************************************************************)
(* Board.ts: the grid is the flat array of length width * height.          *)
(***************************************************************************)
EmptyGrid == [i \in 0..(BOARD_WIDTH * BOARD_HEIGHT - 1) |-> 0]

GetIndex(x, y) == y * BOARD_WIDTH + x

GetCell(g, x, y) ==
    IF x < 0 \/ x >= BOARD_WIDTH \/ y < 0 \/ y >= BOARD_HEIGHT
    THEN 0
    ELSE g[GetIndex(x, y)]

SetCell(g, x, y, value) ==
    IF x >= 0 /\ x < BOARD_WIDTH /\ y >= 0 /\ y < BOARD_HEIGHT
    THEN [g EXCEPT ![GetIndex(x, y)] = value]
    ELSE g

\* isValidPosition that looks up the cells above row 0 as well, where
\* getCell answers 0, and does not test the columns there (C24 depends on it)
IsValidPosition_OpenAbove(g, piece, x, y) ==
    LET cells == FilledCells[piece.type][piece.rotation]
    IN  \A i \in 1..Len(cells) :
            LET boardX == x + cells[i][2]
                boardY == y + cells[i][1]
            IN  IF boardY < 0
                THEN GetCell(g, boardX, boardY) = 0
                ELSE /\ ~(boardX < 0 \/ boardX >= BOARD_WIDTH \/ boardY >= BOARD_HEIGHT)
                     /\ ~(GetCell(g, boardX, boardY) # 0)

IsValidPosition(g, piece, x, y) ==
    LET cells == FilledCells[piece.type][piece.rotation]
    IN  \A i \in 1..Len(cells) :
            LET boardX == x + cells[i][2]
                boardY == y + cells[i][1]
            IN  /\ ~(boardX < 0 \/ boardX >= BOARD_WIDTH \/ boardY >= BOARD_HEIGHT)
                /\ ~(boardY >= 0 /\ GetCell(g, boardX, boardY) # 0)

\* The loops of placePiece from the i-th filled cell on: every filled cell
\* with boardY >= 0 is written through setCell.
RECURSIVE PlaceCells(_, _, _, _, _, _)
PlaceCells(g, cells, i, value, x, y) ==
    IF i > Len(cells)
    THEN g
    ELSE LET boardX == x + cells[i][2]
             boardY == y + cells[i][1]
         IN  PlaceCells(IF boardY >= 0 THEN SetCell(g, boardX, boardY, value) ELSE g,
                        cells, i + 1, value, x, y)

PlacePiece(g, piece, x, y) ==
    PlaceCells(g, FilledCells[piece.type][piece.rotation], 1,
               CharCode(piece.type), x, y)

\* "Find filled lines": the rows with no zero cell, in increasing y.
RECURSIVE FilledLinesFrom(_, _)
FilledLinesFrom(g, y) ==
    IF y >= BOARD_HEIGHT
    THEN << >>
    ELSE (IF \A x \in 0..(BOARD_WIDTH - 1) : GetCell(g, x, y) # 0
          THEN << y >>
          ELSE << >>) \o FilledLinesFrom(g, y + 1)

\* array.reverse()
RECURSIVE Reverse(_)
Reverse(s) == IF s = << >> THEN << >> ELSE Reverse(Tail(s)) \o << Head(s) >>

\* One pass of the clearing loop for lineY: for y = lineY down to 1 row y
\* takes the cells of row y - 1 (read before the next iteration overwrites
\* it), then row 0 is zeroed.
ShiftDownInto(g, lineY) ==
    [ i \in DOMAIN g |->
        LET y == i \div BOARD_WIDTH
            x == i % BOARD_WIDTH
        IN  IF y = 0 THEN 0
            ELSE IF y <= lineY THEN g[GetIndex(x, y - 1)]
            ELSE g[i] ]

\* "Clear lines from bottom to top": the loop over linesToClear.reverse(),
\* each lineY as it was found before any row was moved.
RECURSIVE ClearEach(_, _)
ClearEach(g, linesToClear) ==
    IF linesToClear = << >>
    THEN g
    ELSE ClearEach(ShiftDownInto(g, Head(linesToClear)), Tail(linesToClear))

\* clearLines(): the grid afterwards and the count it returns.
ClearLines(g) ==
    LET linesToClear == FilledLinesFrom(g, 0)
    IN  [ grid |-> ClearEach(g, Reverse(linesToClear)),
          linesCleared |-> Len(linesToClear) ]

RECURSIVE HardDropLoop(_, _, _, _, _)
HardDropLoop(g, piece, x, y, distance) ==
    IF IsValidPosition(g, piece, x, y + distance + 1)
    THEN HardDropLoop(g, piece, x, y, distance + 1)
    ELSE distance

\* getHardDropDistance with "if" in place of "while" (C25 depends on it)
GetHardDropDistance_OneRow(g, piece, x, y) ==
    IF IsValidPosition(g, piece, x, y + 1) THEN 1 ELSE 0

GetHardDropDistance(g, piece, x, y) == HardDropLoop(g, piece, x, y, 0)

(***************************************************************************)
(* PieceGenerator.ts                                                       *)
(*                                                                         *)
(* A generator is [bag, preview, drawn]: bag and preview are the object's  *)
(* fields (the bag is popped from its end); drawn is a history field, the  *)
(* types generatePiece returned since the bag was last refilled.           *)
(* A random source r gives, for each iteration i of the shuffle, the index *)
(* r[i] = Math.floor(Math.random() * (i + 1)).                             *)
(***************************************************************************)
\* new PieceGenerator(1) in GameController
PREVIEW_COUNT == 1

\* The random sources when every Math.random() is one of 0/7, ..., maxDraw/7
\* (7 = the number of piece types); maxDraw = 6 gives every index the
\* shuffle can compute, hence every random source.
RandomSource(maxDraw) ==
    { [ i \in 1..(Len(PieceTypeValues) - 1) |->
          (d[i] * (i + 1)) \div Len(PieceTypeValues) ] :
        d \in [1..(Len(PieceTypeValues) - 1) -> 0..maxDraw] }

\* Math.floor(Math.random() * (i + 1))
RandomIndex(r, i) == r[i]

\* shuffled[i] = shuffled[j] alone, not a swap (C7 depends on the swap)
Swap_Overwrite(shuffled, i, j) ==
    [shuffled EXCEPT ![i + 1] = shuffled[j + 1]]

\* [shuffled[i], shuffled[j]] = [shuffled[j], shuffled[i]] (0-based i, j)
Swap(shuffled, i, j) ==
    [shuffled EXCEPT ![i + 1] = shuffled[j + 1], ![j + 1] = shuffled[i + 1]]

RECURSIVE ShuffleLoop(_, _, _)
ShuffleLoop(shuffled, i, r) ==
    IF i > 0
    THEN ShuffleLoop(Swap(shuffled, i, RandomIndex(r, i)), i - 1, r)
    ELSE shuffled

ShuffleArray(array, r) == ShuffleLoop(array, Len(array) - 1, r)

RefillBag(r) == ShuffleArray(PieceTypeValues, r)

\* generatePiece refilling the bag at every call (C36 depends on the test
\* of bag.length)
GeneratePiece_AlwaysRefills(gen, r) ==
    LET bag == RefillBag(r)
        type == bag[Len(bag)]
    IN  [ generator |->
            [ bag |-> SubSeq(bag, 1, Len(bag) - 1),
              preview |-> gen.preview,
              drawn |-> << type >> ],
          piece |-> Piece(type) ]

\* generatePiece(): [generator, piece]
GeneratePiece(gen, r) ==
    LET refill == gen.bag = << >>
        bag == IF refill THEN RefillBag(r) ELSE gen.bag
        type == bag[Len(bag)]
    IN  [ generator |->
            [ bag |-> SubSeq(bag, 1, Len(bag) - 1),
              preview |-> gen.preview,
              drawn |-> IF refill THEN << type >> ELSE Append(gen.drawn, type) ],
          piece |-> Piece(type) ]

\* The loop "for i < previewCount: preview.push(generatePiece())".
RECURSIVE FillPreview(_, _, _)
FillPreview(gen, n, r) ==
    IF n = 0
    THEN gen
    ELSE LET g == GeneratePiece(gen, r)
         IN  FillPreview([g.generator EXCEPT !.preview = Append(@, g.piece)],
                         n - 1, r)

\* constructor
NewGenerator(r) ==
    FillPreview([bag |-> << >>, preview |-> << >>, drawn |-> << >>],
                PREVIEW_COUNT, r)

\* next(): [generator, piece]
GeneratorNext(gen, r) ==
    LET piece == Head(gen.preview)
        g == GeneratePiece([gen EXCEPT !.preview = Tail(@)], r)
    IN  [ generator |-> [g.generator EXCEPT !.preview = Append(@, g.piece)],
          piece |-> piece ]

\* getPreview()
GetPreview(gen) == gen.preview

\* reset()
GeneratorReset(gen, r) ==
    FillPreview([bag |-> << >>, preview |-> << >>, drawn |-> << >>],
                PREVIEW_COUNT, r)

(***************************************************************************)
(* State                                                                   *)
(***************************************************************************)
VARIABLES
    state,      \* Store.state: the GameState record (without board)
    grid,       \* state.board.grid, mutated in place
    generator,  \* the PieceGenerator
    input,      \* the InputHandler: keyStates and whether it listens
    loop,       \* the GameLoop: animationId, lastFrameTime, dropAccumulator,
                \* and the browser's frame requests: how many were made
                \* (the handle of the last) and the handles still pending
    now,        \* the time in ms, as Date.now() and performance.now() tell it
    keyboard,   \* the keys held down, with the history of each press
    calls,      \* history: the calls so far that changed the program's state
    subscribers,\* Store.subscribers: the Set, as the sequence forEach visits
    events,     \* EventBus.events: the Map from event names to such Sets
    history,    \* history of the subscriptions: since when each is in force,
                \* the unsubscribe functions handed out and those called
    drought     \* history of next(): for one kind of piece, whether next()
                \* has returned it since the generator was made or reset
                \* and how many pieces it has returned since

vars == << state, grid, generator, input, loop, now, keyboard, calls,
          subscribers, events, history, drought >>

\* The variables the action layer does not touch.
shell == << input, loop, now, keyboard >>

\* The subscriptions, which no call of the game or of the controller
\* changes, and the record of the pieces dealt, which is kept for the
\* generator on its own.
wiring == << subscribers, events, history, drought >>

(***************************************************************************)
(* Store.ts and EventBus.ts, as the action layer uses them.  A context c   *)
(* is what a call has made of the program so far: state, grid, generator,  *)
(* the events it emitted, the board as the handlers of each event found it *)
(* (observed, one grid for every event) and the number of setState calls   *)
(* (each of which notifies every subscriber once).  getState() returns the *)
(* state object itself: snapshot is the object the store held at the entry *)
(* of the call, as it is now, and shared tells whether the store's current *)
(* state still refers to the Piece object the snapshot refers to (setState *)
(* copies the references of the fields it is not given).  The Board object *)
(* is never replaced, so the snapshot's board is c.grid.                   *)
(***************************************************************************)
\* { ...this.state, ...partialState }
Merge(s, partialState) ==
    [ k \in DOMAIN s |-> IF k \in DOMAIN partialState THEN partialState[k] ELSE s[k] ]

\* store.setState(partialState): merge, then notify the subscribers
SetState(c, partialState) ==
    [c EXCEPT !.state = Merge(c.state, partialState),
              !.notified = @ + 1,
              !.shared = @ /\ "currentPiece" \notin DOMAIN partialState]

\* eventBus.emit(event, data)
Emit(c, event, data) ==
    [c EXCEPT !.emitted = Append(@, [event |-> event, data |-> data]),
              !.observed = Append(@, c.grid)]

Undefined == "undefined"

\* The context at the entry of a call.
Entry ==
    [ state |-> state, grid |-> grid, generator |-> generator,
      emitted |-> << >>, observed |-> << >>, notified |-> 0,
      snapshot |-> state, shared |-> TRUE ]

HasEvent(emitted, event) == \E i \in 1..Len(emitted) : emitted[i].event = event

(***************************************************************************)
(* Store.ts and EventBus.ts with their subscribers.  A Set is the sequence *)
(* of its members in insertion order.  The callbacks are the clients': one *)
(* that only reads what it is given (as the UI's do), one that calls its   *)
(* own unsubscribe function (or off) when it is called, and one that calls *)
(* the reader's.  No callback writes the state or emits an event.          *)
(***************************************************************************)
Callbacks == { "reader", "once", "canceller" }

None == "none"

\* The callback whose removal a callback asks for when it is called.
Victim(callback) ==
    CASE callback = "once" -> "once"
      [] callback = "canceller" -> "reader"
      [] OTHER -> None

\* set.add(member)
SetAdd(members, member) ==
    IF \E i \in 1..Len(members) : members[i] = member
    THEN members
    ELSE Append(members, member)

\* set.delete(member)
SetDelete(members, member) == SelectSeq(members, LAMBDA m : m # member)

\* set.forEach((f) => f(argument)): the members are visited in insertion
\* order; a member deleted before its turn is not visited.  pending are the
\* members still to visit, trace the calls made so far: of the callbacks,
\* and by them of the removal of their victims.
RECURSIVE ForEach(_, _, _, _)
ForEach(members, pending, argument, trace) ==
    IF pending = << >>
    THEN [members |-> members, trace |-> trace]
    ELSE LET f == Head(pending)
         IN  ForEach(SetDelete(members, Victim(f)),
                     SetDelete(Tail(pending), Victim(f)),
                     argument,
                     trace \o << [op |-> "call", target |-> f, argument |-> argument] >>
                           \o (IF Victim(f) = None
                               THEN << >>
                               ELSE << [op |-> "delete", target |-> Victim(f),
                                        argument |-> argument] >>))

\* subscribe that puts the subscriber in front (C21 depends on it)
Subscribe_InFront(subs, subscriber) ==
    IF \E i \in 1..Len(subs) : subs[i] = subscriber
    THEN subs
    ELSE << subscriber >> \o subs

\* store.subscribe(subscriber)
Subscribe(subs, subscriber) == SetAdd(subs, subscriber)

\* the function subscribe returned for subscriber
Unsubscribe(subs, subscriber) == SetDelete(subs, subscriber)

NotifySubscribers(subs, s) == ForEach(subs, subs, s, << >>)

\* store.setState(partialState) with the subscribers it finds
StoreSetState(s, subs, partialState) ==
    [ state |-> Merge(s, partialState),
      subscribers |-> NotifySubscribers(subs, Merge(s, partialState)).members,
      trace |-> NotifySubscribers(subs, Merge(s, partialState)).trace ]

\* eventBus.on(event, handler)
On(evs, event, handler) ==
    IF event \in DOMAIN evs
    THEN [evs EXCEPT ![event] = SetAdd(@, handler)]
    ELSE [ e \in DOMAIN evs \cup { event } |->
             IF e = event THEN << handler >> ELSE evs[e] ]

\* off that leaves the handlers alone (C22 depends on it)
Off_Ignored(evs, event, handler) == evs

\* eventBus.off(event, handler)
Off(evs, event, handler) ==
    IF event \in DOMAIN evs
    THEN [evs EXCEPT ![event] = SetDelete(@, handler)]
    ELSE evs

\* eventBus.emit(event, data) with the handlers it finds
BusEmit(evs, event, data) ==
    IF event \in DOMAIN evs
    THEN [ events |-> [evs EXCEPT ![event] =
                           ForEach(evs[event], evs[event], data, << >>).members],
           trace |-> ForEach(evs[event], evs[event], data, << >>).trace ]
    ELSE [ events |-> evs, trace |-> << >> ]

(***************************************************************************)
(* GameActions                                                             *)
(***************************************************************************)
\* canMove without the status test (C3 depends on it)
CanMove_AnyStatus(s) == s.currentPiece # Null

CanMove(s) == s.status = "PLAYING" /\ s.currentPiece # Null

\* calculateLineScore without the level factor (C8 depends on it)
CalculateLineScore_NoLevel(lines, level) == SCORE_VALUES(lines)

CalculateLineScore(lines, level) == Times(SCORE_VALUES(lines), level)

\* calculateDropInterval without Math.max (C12 depends on it)
CalculateDropInterval_NoFloor(level) ==
    INITIAL_DROP_INTERVAL - (level - 1) * DROP_INTERVAL_DECREASE

CalculateDropInterval(level) ==
    LET interval == INITIAL_DROP_INTERVAL - (level - 1) * DROP_INTERVAL_DECREASE
    IN  IF interval >= MIN_DROP_INTERVAL THEN interval ELSE MIN_DROP_INTERVAL

\* gameOver without the reset of currentPiece (C29 depends on it)
GameOver_KeepsPiece(c) ==
    Emit(SetState(c, [status |-> "GAME_OVER", isDirty |-> TRUE]),
         "GAME_OVER", Undefined)

GameOver(c) ==
    Emit(SetState(c, [status |-> "GAME_OVER", currentPiece |-> Null, isDirty |-> TRUE]),
         "GAME_OVER", Undefined)

\* spawnNextPiece without the validity test (C4 depends on it)
SpawnNextPiece_Unchecked(c, r) ==
    LET n == GeneratorNext(c.generator, r)
        c1 == [c EXCEPT !.generator = n.generator]
    IN  Emit(SetState(c1, [ currentPiece |-> n.piece,
                            currentX |-> SPAWN_X,
                            currentY |-> SPAWN_Y,
                            canHold |-> TRUE,
                            nextPieces |-> GetPreview(n.generator),
                            isDirty |-> TRUE ]),
             "PIECE_SPAWN", n.piece)

\* spawnNextPiece leaving nextPieces as it was (C34 depends on it)
SpawnNextPiece_StalePreview(c, r) ==
    LET n == GeneratorNext(c.generator, r)
        c1 == [c EXCEPT !.generator = n.generator]
    IN  IF ~IsValidPosition(c1.grid, n.piece, SPAWN_X, SPAWN_Y)
        THEN GameOver(c1)
        ELSE Emit(SetState(c1, [ currentPiece |-> n.piece,
                                 currentX |-> SPAWN_X,
                                 currentY |-> SPAWN_Y,
                                 canHold |-> TRUE,
                                 isDirty |-> TRUE ]),
                  "PIECE_SPAWN", n.piece)

SpawnNextPiece(c, r) ==
    LET n == GeneratorNext(c.generator, r)
        c1 == [c EXCEPT !.generator = n.generator]
        nextPieces == GetPreview(n.generator)
    IN  IF ~IsValidPosition(c1.grid, n.piece, SPAWN_X, SPAWN_Y)
        THEN GameOver(c1)
        ELSE Emit(SetState(c1, [ currentPiece |-> n.piece,
                                 currentX |-> SPAWN_X,
                                 currentY |-> SPAWN_Y,
                                 canHold |-> TRUE,
                                 nextPieces |-> nextPieces,
                                 isDirty |-> TRUE ]),
                  "PIECE_SPAWN", n.piece)

\* lockPiece with piece-lock emitted before placePiece (C30 depends on it)
LockPiece_EmitsFirst(c, r) ==
    LET s == c.state
    IN  IF s.currentPiece = Null
        THEN c
        ELSE
          LET placed == PlacePiece(c.grid, s.currentPiece, s.currentX, s.currentY)
              c1 == [Emit(c, "PIECE_LOCK", s.currentPiece) EXCEPT !.grid = placed]
              cl == ClearLines(placed)
              linesCleared == cl.linesCleared
              c2 == [c1 EXCEPT !.grid = cl.grid]
              lineScore == CalculateLineScore(linesCleared, s.level)
              newLines == s.lines + linesCleared
              newLevel == (newLines \div LINES_PER_LEVEL) + 1
              leveledUp == newLevel > s.level
              c3 == SetState(c2, [ score |-> Plus(s.score, lineScore),
                                   lines |-> newLines,
                                   level |-> newLevel,
                                   dropInterval |-> CalculateDropInterval(newLevel) ])
              c4 == Emit(Emit(c3, "LINE_CLEARED", linesCleared),
                         "SCORE_UPDATE", Plus(s.score, lineScore))
              c5 == IF leveledUp THEN Emit(c4, "LEVEL_UP", newLevel) ELSE c4
          IN  SpawnNextPiece(IF linesCleared > 0 THEN c5 ELSE c2, r)

LockPiece(c, r) ==
    LET s == c.state
    IN  IF s.currentPiece = Null
        THEN c
        ELSE
          LET placed == PlacePiece(c.grid, s.currentPiece, s.currentX, s.currentY)
              c1 == Emit([c EXCEPT !.grid = placed], "PIECE_LOCK", s.currentPiece)
              cl == ClearLines(placed)
              linesCleared == cl.linesCleared
              c2 == [c1 EXCEPT !.grid = cl.grid]
              lineScore == CalculateLineScore(linesCleared, s.level)
              newLines == s.lines + linesCleared
              newLevel == (newLines \div LINES_PER_LEVEL) + 1
              leveledUp == newLevel > s.level
              c3 == SetState(c2, [ score |-> Plus(s.score, lineScore),
                                   lines |-> newLines,
                                   level |-> newLevel,
                                   dropInterval |-> CalculateDropInterval(newLevel) ])
              c4 == Emit(Emit(c3, "LINE_CLEARED", linesCleared),
                         "SCORE_UPDATE", Plus(s.score, lineScore))
              c5 == IF leveledUp THEN Emit(c4, "LEVEL_UP", newLevel) ELSE c4
          IN  SpawnNextPiece(IF linesCleared > 0 THEN c5 ELSE c2, r)

\* startGame without the reset of the level (C11 depends on it)
StartGame_KeepsLevel(c, r) ==
    IF c.state.status = "PLAYING"
    THEN c
    ELSE
      LET reset == GeneratorReset(c.generator, r)
          n == GeneratorNext(reset, r)
          c1 == [c EXCEPT !.generator = n.generator, !.grid = EmptyGrid]
          c2 == SetState(c1, [ status |-> "PLAYING",
                               currentPiece |-> n.piece,
                               currentX |-> SPAWN_X,
                               currentY |-> SPAWN_Y,
                               holdPiece |-> Null,
                               canHold |-> TRUE,
                               nextPieces |-> GetPreview(n.generator),
                               score |-> 0,
                               lines |-> 0,
                               dropInterval |-> INITIAL_DROP_INTERVAL,
                               isDirty |-> TRUE ])
      IN  Emit(Emit(c2, "GAME_START", Undefined), "PIECE_SPAWN", n.piece)

\* startGame without state.board.clear() (C31 depends on it)
StartGame_KeepsBoard(c, r) ==
    IF c.state.status = "PLAYING"
    THEN c
    ELSE
      LET reset == GeneratorReset(c.generator, r)
          n == GeneratorNext(reset, r)
          c1 == [c EXCEPT !.generator = n.generator]
          c2 == SetState(c1, [ status |-> "PLAYING",
                               currentPiece |-> n.piece,
                               currentX |-> SPAWN_X,
                               currentY |-> SPAWN_Y,
                               holdPiece |-> Null,
                               canHold |-> TRUE,
                               nextPieces |-> GetPreview(n.generator),
                               score |-> 0,
                               lines |-> 0,
                               level |-> 1,
                               dropInterval |-> INITIAL_DROP_INTERVAL,
                               isDirty |-> TRUE ])
      IN  Emit(Emit(c2, "GAME_START", Undefined), "PIECE_SPAWN", n.piece)

StartGame(c, r) ==
    IF c.state.status = "PLAYING"
    THEN c
    ELSE
      LET reset == GeneratorReset(c.generator, r)
          n == GeneratorNext(reset, r)
          firstPiece == n.piece
          nextPieces == GetPreview(n.generator)
          c1 == [c EXCEPT !.generator = n.generator, !.grid = EmptyGrid]
          c2 == SetState(c1, [ status |-> "PLAYING",
                               currentPiece |-> firstPiece,
                               currentX |-> SPAWN_X,
                               currentY |-> SPAWN_Y,
                               holdPiece |-> Null,
                               canHold |-> TRUE,
                               nextPieces |-> nextPieces,
                               score |-> 0,
                               lines |-> 0,
                               level |-> 1,
                               dropInterval |-> INITIAL_DROP_INTERVAL,
                               isDirty |-> TRUE ])
      IN  Emit(Emit(c2, "GAME_START", Undefined), "PIECE_SPAWN", firstPiece)

\* pause without the status test (C6 depends on it)
Pause_AnyStatus(c) ==
    Emit(SetState(c, [status |-> "PAUSED", isDirty |-> TRUE]), "GAME_PAUSE", Undefined)

Pause(c) ==
    IF c.state.status = "PLAYING"
    THEN Emit(SetState(c, [status |-> "PAUSED", isDirty |-> TRUE]),
              "GAME_PAUSE", Undefined)
    ELSE c

\* resume without the status test (C33 depends on it)
Resume_AnyStatus(c) ==
    Emit(SetState(c, [status |-> "PLAYING", isDirty |-> TRUE]), "GAME_RESUME", Undefined)

\* resume with the board.clear() of startGame (C23 depends on it)
Resume_ClearsBoard(c) ==
    IF c.state.status = "PAUSED"
    THEN Emit(SetState([c EXCEPT !.grid = EmptyGrid],
                       [status |-> "PLAYING", isDirty |-> TRUE]),
              "GAME_RESUME", Undefined)
    ELSE c

Resume(c) ==
    IF c.state.status = "PAUSED"
    THEN Emit(SetState(c, [status |-> "PLAYING", isDirty |-> TRUE]),
              "GAME_RESUME", Undefined)
    ELSE c

MoveLeft(c) ==
    LET s == c.state
        newX == s.currentX - 1
    IN  IF ~CanMove(s) THEN c
        ELSE IF IsValidPosition(c.grid, s.currentPiece, newX, s.currentY)
        THEN Emit(SetState(c, [currentX |-> newX, isDirty |-> TRUE]),
                  "PIECE_MOVE", "left")
        ELSE c

MoveRight(c) ==
    LET s == c.state
        newX == s.currentX + 1
    IN  IF ~CanMove(s) THEN c
        ELSE IF IsValidPosition(c.grid, s.currentPiece, newX, s.currentY)
        THEN Emit(SetState(c, [currentX |-> newX, isDirty |-> TRUE]),
                  "PIECE_MOVE", "right")
        ELSE c

\* moveDown that tests only whether there is a piece (C17 depends on it)
MoveDown_AnyStatus(c, r) ==
    LET s == c.state
        newY == s.currentY + 1
    IN  IF s.currentPiece = Null THEN [context |-> c, moved |-> FALSE]
        ELSE IF IsValidPosition(c.grid, s.currentPiece, s.currentX, newY)
        THEN [ context |-> Emit(SetState(c, [currentY |-> newY, isDirty |-> TRUE]),
                                "PIECE_MOVE", "down"),
               moved |-> TRUE ]
        ELSE [context |-> LockPiece(c, r), moved |-> FALSE]

\* moveDown(): [context, moved] (moved is the boolean the code returns)
MoveDown(c, r) ==
    LET s == c.state
        newY == s.currentY + 1
    IN  IF ~CanMove(s) THEN [context |-> c, moved |-> FALSE]
        ELSE IF IsValidPosition(c.grid, s.currentPiece, s.currentX, newY)
        THEN [ context |-> Emit(SetState(c, [currentY |-> newY, isDirty |-> TRUE]),
                                "PIECE_MOVE", "down"),
               moved |-> TRUE ]
        ELSE [context |-> LockPiece(c, r), moved |-> FALSE]

\* softDrop awarding its point whether or not the piece moved (C10 depends
\* on the test of moveDown's result)
SoftDrop_AlwaysAwards(c, r) ==
    LET s == c.state
    IN  IF ~CanMove(s) THEN c
        ELSE
          LET m == MoveDown(c, r)
              newScore == Plus(s.score, SOFT_DROP_SCORE)
          IN  Emit(SetState(m.context, [score |-> newScore]),
                   "SCORE_UPDATE", newScore)

SoftDrop(c, r) ==
    LET s == c.state
    IN  IF ~CanMove(s) THEN c
        ELSE
          LET m == MoveDown(c, r)
              newScore == Plus(s.score, SOFT_DROP_SCORE)
          IN  IF m.moved
              THEN Emit(SetState(m.context, [score |-> newScore]),
                        "SCORE_UPDATE", newScore)
              ELSE m.context

\* hardDrop locking only after a drop of at least one row (C9 depends on
\* the unconditional lock)
HardDrop_NoLockAtRest(c, r) ==
    LET s == c.state
    IN  IF ~CanMove(s) THEN c
        ELSE
          LET distance == GetHardDropDistance(c.grid, s.currentPiece,
                                              s.currentX, s.currentY)
              newY == s.currentY + distance
              dropScore == distance * HARD_DROP_SCORE
              c1 == Emit(SetState(c, [ currentY |-> newY,
                                       score |-> Plus(s.score, dropScore),
                                       isDirty |-> TRUE ]),
                         "SCORE_UPDATE", Plus(s.score, dropScore))
          IN  IF distance > 0 THEN LockPiece(c1, r) ELSE c

HardDrop(c, r) ==
    LET s == c.state
    IN  IF ~CanMove(s) THEN c
        ELSE
          LET distance == GetHardDropDistance(c.grid, s.currentPiece,
                                              s.currentX, s.currentY)
              newY == s.currentY + distance
              dropScore == distance * HARD_DROP_SCORE
              c1 == Emit(SetState(c, [ currentY |-> newY,
                                       score |-> Plus(s.score, dropScore),
                                       isDirty |-> TRUE ]),
                         "SCORE_UPDATE", Plus(s.score, dropScore))
          IN  LockPiece(IF distance > 0 THEN c1 ELSE c, r)

\* wallKickOffsets with the two one-column kicks exchanged (C15 depends on it)
WallKickOffsets_RightFirst ==
    << [x |-> 1, y |-> 0], [x |-> -1, y |-> 0], [x |-> 0, y |-> -1],
       [x |-> -2, y |-> 0], [x |-> 2, y |-> 0] >>

WallKickOffsets ==
    << [x |-> -1, y |-> 0], [x |-> 1, y |-> 0], [x |-> 0, y |-> -1],
       [x |-> -2, y |-> 0], [x |-> 2, y |-> 0] >>

\* state.currentPiece!.rotate(direction): the piece object is rotated in
\* place, without a setState.
RotateInPlace(c, direction) ==
    [c EXCEPT !.state.currentPiece = PieceRotate(@, direction),
              !.snapshot.currentPiece =
                  IF c.shared THEN PieceRotate(@, direction) ELSE @]

\* The loop over wallKickOffsets from index k on, for the rotated clone.
RECURSIVE TryWallKicks(_, _, _, _)
TryWallKicks(c, piece, direction, k) ==
    IF k > Len(WallKickOffsets)
    THEN c
    ELSE
      LET newX == c.state.currentX + WallKickOffsets[k].x
          newY == c.state.currentY + WallKickOffsets[k].y
      IN  IF IsValidPosition(c.grid, piece, newX, newY)
          THEN Emit(SetState(RotateInPlace(c, direction),
                             [currentX |-> newX, currentY |-> newY, isDirty |-> TRUE]),
                    "PIECE_ROTATE", direction)
          ELSE TryWallKicks(c, piece, direction, k + 1)

Rotate(c, direction) ==
    LET s == c.state
    IN  IF ~CanMove(s) THEN c
        ELSE
          LET piece == PieceRotate(s.currentPiece, direction)
          IN  IF IsValidPosition(c.grid, piece, s.currentX, s.currentY)
              THEN Emit(SetState(RotateInPlace(c, direction), [isDirty |-> TRUE]),
                        "PIECE_ROTATE", direction)
              ELSE TryWallKicks(c, piece, direction, 1)

\* hold that stores the falling piece object as it is (C13 depends on it)
Hold_KeepsRotation(c, r) ==
    LET s == c.state
    IN  IF ~CanMove(s) \/ ~s.canHold THEN c
        ELSE
          LET n == GeneratorNext(c.generator, r)
              first == SetState([c EXCEPT !.generator = n.generator],
                                [ currentPiece |-> n.piece,
                                  currentX |-> SPAWN_X,
                                  currentY |-> SPAWN_Y,
                                  holdPiece |-> s.currentPiece,
                                  canHold |-> FALSE,
                                  nextPieces |-> GetPreview(n.generator),
                                  isDirty |-> TRUE ])
              swap == SetState(c, [ currentPiece |-> Piece(s.holdPiece.type),
                                    currentX |-> SPAWN_X,
                                    currentY |-> SPAWN_Y,
                                    holdPiece |-> s.currentPiece,
                                    canHold |-> FALSE,
                                    isDirty |-> TRUE ])
          IN  Emit(IF s.holdPiece = Null THEN first ELSE swap, "HOLD_PIECE", Undefined)

\* hold without the canHold test (C14 depends on it)
Hold_IgnoresCanHold(c, r) ==
    LET s == c.state
    IN  IF ~CanMove(s) THEN c
        ELSE
          LET n == GeneratorNext(c.generator, r)
              first == SetState([c EXCEPT !.generator = n.generator],
                                [ currentPiece |-> n.piece,
                                  currentX |-> SPAWN_X,
                                  currentY |-> SPAWN_Y,
                                  holdPiece |-> Piece(s.currentPiece.type),
                                  canHold |-> FALSE,
                                  nextPieces |-> GetPreview(n.generator),
                                  isDirty |-> TRUE ])
              swap == SetState(c, [ currentPiece |-> Piece(s.holdPiece.type),
                                    currentX |-> SPAWN_X,
                                    currentY |-> SPAWN_Y,
                                    holdPiece |-> Piece(s.currentPiece.type),
                                    canHold |-> FALSE,
                                    isDirty |-> TRUE ])
          IN  Emit(IF s.holdPiece = Null THEN first ELSE swap, "HOLD_PIECE", Undefined)

Hold(c, r) ==
    LET s == c.state
    IN  IF ~CanMove(s) \/ ~s.canHold THEN c
        ELSE
          LET currentPiece == s.currentPiece
              holdPiece == s.holdPiece
              n == GeneratorNext(c.generator, r)
              first == SetState([c EXCEPT !.generator = n.generator],
                                [ currentPiece |-> n.piece,
                                  currentX |-> SPAWN_X,
                                  currentY |-> SPAWN_Y,
                                  holdPiece |-> Piece(currentPiece.type),
                                  canHold |-> FALSE,
                                  nextPieces |-> GetPreview(n.generator),
                                  isDirty |-> TRUE ])
              swap == SetState(c, [ currentPiece |-> Piece(holdPiece.type),
                                    currentX |-> SPAWN_X,
                                    currentY |-> SPAWN_Y,
                                    holdPiece |-> Piece(currentPiece.type),
                                    canHold |-> FALSE,
                                    isDirty |-> TRUE ])
          IN  Emit(IF holdPiece = Null THEN first ELSE swap, "HOLD_PIECE", Undefined)

(***************************************************************************)
(* GameController                                                          *)
(***************************************************************************)
\* restart(): stop(), then start(), whose state change is startGame().
ControllerRestart(c, r) == StartGame(c, r)

\* The context of the whole controller: the action layer's context, the
\* InputHandler, the GameLoop, and what the call did: the gameActions methods
\* handleKeyAction called (with the key), the loop's own moveDown calls,
\* the calls of the render callback, and the steps of the loop in the order
\* it took them: "poll" for inputHandler.update(), "gravity" for the
\* accumulator's update with its moveDown, "render" for the render callback.
ControllerEntry ==
    [ game |-> Entry, input |-> input, loop |-> loop,
      fired |-> << >>, gravity |-> 0, rendered |-> 0, steps |-> << >> ]

(***************************************************************************)
(* InputHandler.ts.  keyStates is the Map as the sequence of its entries   *)
(* in insertion order, the order forEach visits them in.  A handler reads  *)
(* Date.now() more than once; the model gives it one reading, t.           *)
(***************************************************************************)
HasKey(keyStates, key) == \E i \in 1..Len(keyStates) : keyStates[i].key = key

\* keyStates.get(key), for a key the Map has
GetKey(keyStates, key) ==
    keyStates[CHOOSE i \in 1..Len(keyStates) : keyStates[i].key = key]

\* keyStates.set(key, entry): an existing key keeps its place
SetKey(keyStates, entry) ==
    IF HasKey(keyStates, entry.key)
    THEN [ i \in 1..Len(keyStates) |->
             IF keyStates[i].key = entry.key THEN entry ELSE keyStates[i] ]
    ELSE Append(keyStates, entry)

\* keyStates.delete(key)
DeleteKey(keyStates, key) ==
    LET Others(entry) == entry.key # key
    IN  SelectSeq(keyStates, Others)

InputStart(k) == [k EXCEPT !.input.listening = TRUE]

InputStop(k) == [k EXCEPT !.input.listening = FALSE, !.input.keyStates = << >>]

IsFirstPress(k, key, t) ==
    IF ~HasKey(k.input.keyStates, key)
    THEN FALSE
    ELSE t < GetKey(k.input.keyStates, key).repeatTime

HandlePauseToggle(k) == [k EXCEPT !.game = Resume(Pause(@))]

\* handleKeyAction calls the gameActions method named action for key
Fire(k, key, action) ==
    [k EXCEPT !.fired = Append(@, [key |-> key, action |-> action])]

HandleKeyAction(k, key, t, r) ==
    CASE key \in { KeyCode.LEFT, KeyCode.A } ->
             [Fire(k, key, "moveLeft") EXCEPT !.game = MoveLeft(@)]
      [] key \in { KeyCode.RIGHT, KeyCode.D } ->
             [Fire(k, key, "moveRight") EXCEPT !.game = MoveRight(@)]
      [] key \in { KeyCode.DOWN, KeyCode.S } ->
             [Fire(k, key, "softDrop") EXCEPT !.game = SoftDrop(@, r)]
      [] key \in { KeyCode.UP, KeyCode.W, KeyCode.X } ->
             IF IsFirstPress(k, key, t)
             THEN [Fire(k, key, "rotate") EXCEPT !.game = Rotate(@, "clockwise")]
             ELSE k
      [] key \in { KeyCode.Z, KeyCode.CTRL } ->
             IF IsFirstPress(k, key, t)
             THEN [Fire(k, key, "rotate") EXCEPT
                       !.game = Rotate(@, "counterclockwise")]
             ELSE k
      [] key = KeyCode.SPACE ->
             IF IsFirstPress(k, key, t)
             THEN [Fire(k, key, "hardDrop") EXCEPT !.game = HardDrop(@, r)]
             ELSE k
      [] key \in { KeyCode.C, KeyCode.SHIFT } ->
             IF IsFirstPress(k, key, t)
             THEN [Fire(k, key, "hold") EXCEPT !.game = Hold(@, r)]
             ELSE k
      [] key \in { KeyCode.P, KeyCode.ESCAPE } ->
             IF IsFirstPress(k, key, t)
             THEN HandlePauseToggle(Fire(k, key, "handlePauseToggle"))
             ELSE k
      [] OTHER -> k

\* handleKeyDown (preventDefault changes nothing of the program)
HandleKeyDown(k, key, t, r) ==
    IF ~HasKey(k.input.keyStates, key) \/ ~GetKey(k.input.keyStates, key).isPressed
    THEN HandleKeyAction(
             [k EXCEPT !.input.keyStates =
                 SetKey(@, [ key |-> key, isPressed |-> TRUE,
                             lastPressTime |-> t, repeatTime |-> t + DAS_DELAY ])],
             key, t, r)
    ELSE k

HandleKeyUp(k, key) == [k EXCEPT !.input.keyStates = DeleteKey(@, key)]

\* update() without writing the new repeatTime (C20 depends on it)
UpdateKey_NoRearm(k, i, t, r) ==
    LET entry == k.input.keyStates[i]
    IN  IF ~entry.isPressed THEN k
        ELSE IF t >= entry.repeatTime
             THEN HandleKeyAction(k, entry.key, t, r)
             ELSE k

\* The callback update() gives forEach, for the i-th entry.
UpdateKey(k, i, t, r) ==
    LET entry == k.input.keyStates[i]
    IN  IF ~entry.isPressed THEN k
        ELSE IF t >= entry.repeatTime
             THEN [HandleKeyAction(k, entry.key, t, r) EXCEPT
                       !.input.keyStates[i].repeatTime = t + ARR_INTERVAL]
             ELSE k

RECURSIVE UpdateFrom(_, _, _, _)
UpdateFrom(k, i, t, r) ==
    IF i > Len(k.input.keyStates)
    THEN k
    ELSE UpdateFrom(UpdateKey(k, i, t, r), i + 1, t, r)

\* InputHandler.update()
InputUpdate(k, t, r) == UpdateFrom(k, 1, t, r)

(***************************************************************************)
(* GameLoop.ts.  requestAnimationFrame returns a new handle (1, 2, ...) and *)
(* makes it pending until the frame arrives or cancelAnimationFrame is     *)
(* given the handle; animationId is 0 for null, or the handle it was given. *)
(***************************************************************************)
\* Math.min(deltaTime, 100) left out (C16 depends on it)
CappedDeltaTime_Uncapped(deltaTime) == deltaTime

CappedDeltaTime(deltaTime) == IF deltaTime < 100 THEN deltaTime ELSE 100

\* The gravity part of update(): s is the state update() read at its start,
\* k the program after inputHandler.update().
Gravity(k, s, deltaTime, r) ==
    LET accumulated == k.loop.dropAccumulator + deltaTime
        rest == accumulated - s.dropInterval
    IN  IF accumulated >= s.dropInterval
        THEN [k EXCEPT !.game = MoveDown(@, r).context,
                       !.gravity = @ + 1,
                       !.steps = Append(@, "gravity"),
                       !.loop.dropAccumulator =
                           IF rest > s.dropInterval THEN 0 ELSE rest]
        ELSE [k EXCEPT !.steps = Append(@, "gravity"),
                       !.loop.dropAccumulator = accumulated]

Update(k, deltaTime, t, r) ==
    IF k.game.state.status # "PLAYING"
    THEN k
    ELSE Gravity(InputUpdate([k EXCEPT !.steps = Append(@, "poll")], t, r),
                 k.game.state, deltaTime, r)

\* render() calling the callback whether or not the state is dirty (C38
\* depends on the test of isDirty)
Render_Always(k) ==
    [k EXCEPT !.rendered = @ + 1,
              !.steps = Append(@, "render"),
              !.game = SetState(@, [isDirty |-> FALSE])]

Render(k) ==
    IF k.game.state.isDirty
    THEN [k EXCEPT !.rendered = @ + 1,
                   !.steps = Append(@, "render"),
                   !.game = SetState(@, [isDirty |-> FALSE])]
    ELSE k

\* Variant: the loop asks for no further frame.
RequestFrame_Forgets(k) ==
    k

\* requestAnimationFrame((time) => this.loop(time)), assigned to animationId
RequestFrame(k) ==
    [k EXCEPT !.loop.requested = @ + 1,
              !.loop.pending = @ \cup { k.loop.requested + 1 },
              !.loop.animationId = k.loop.requested + 1]

\* loop(currentTime) up to its call of render(): the frame is requested
\* again, then update
LoopUpdate(k, currentTime, r) ==
    Update([RequestFrame(k) EXCEPT !.loop.lastFrameTime = currentTime],
           CappedDeltaTime(currentTime - k.loop.lastFrameTime),
           currentTime, r)

\* loop(currentTime)
Loop(k, currentTime, r) == Render(LoopUpdate(k, currentTime, r))

\* start() without the test of animationId (C39 depends on it)
LoopStart_Unguarded(k, t, r) ==
    Loop([k EXCEPT !.loop.lastFrameTime = t, !.loop.dropAccumulator = 0], t, r)

LoopStart(k, t, r) ==
    IF k.loop.animationId # 0
    THEN k
    ELSE Loop([k EXCEPT !.loop.lastFrameTime = t, !.loop.dropAccumulator = 0], t, r)

\* stop(): cancelAnimationFrame(animationId) takes that handle, if it is
\* pending, out of the pending ones
LoopStop(k) ==
    IF k.loop.animationId # 0
    THEN [k EXCEPT !.loop.pending = @ \ { k.loop.animationId },
                   !.loop.animationId = 0]
    ELSE k

LoopReset(k, t) == [k EXCEPT !.loop.lastFrameTime = t, !.loop.dropAccumulator = 0]

(***************************************************************************)
(* GameController, with the InputHandler and the GameLoop                  *)
(***************************************************************************)
GameControllerStart(k, t, r) ==
    LoopStart(InputStart([k EXCEPT !.game = StartGame(@, r)]), t, r)

GameControllerStop(k) == InputStop(LoopStop(k))

GameControllerRestart(k, t, r) == GameControllerStart(GameControllerStop(k), t, r)

GameControllerPause(k) ==
    IF k.game.state.status = "PLAYING" THEN [k EXCEPT !.game = Pause(@)] ELSE k

GameControllerResume(k, t) ==
    IF k.game.state.status = "PAUSED"
    THEN LoopReset([k EXCEPT !.game = Resume(@)], t)
    ELSE k

TogglePause(k, t) ==
    IF k.game.state.status = "PLAYING"
    THEN GameControllerPause(k)
    ELSE IF k.game.state.status = "PAUSED"
         THEN GameControllerResume(k, t)
         ELSE k

(***************************************************************************)
(* Initial states.  The program starts as new GameController() leaves it.  *)
(* Lines are cleared and levels are gained only after many pieces, so the  *)
(* specification also starts from games in progress: a freshly spawned     *)
(* piece over a stack of I pieces, with the counters a game can have       *)
(* there.                                                                  *)
(***************************************************************************)
\* The random sources of the game specification.
GameRandom == RandomSource(MaxRandom)

\* The random sources a call can consume: the shuffle runs only when the bag
\* is empty at the call's generatePiece.
NoRandom == CHOOSE r \in RandomSource(0) : TRUE

RandomFor(gen) == IF gen.bag = << >> THEN GameRandom ELSE { NoRandom }

\* k horizontal I pieces stacked at the left wall; the right column is free
WellGrid(k) ==
    [ i \in DOMAIN EmptyGrid |->
        IF i \div BOARD_WIDTH >= BOARD_HEIGHT - k /\ i % BOARD_WIDTH < 4
        THEN CharCode("I") ELSE 0 ]

\* one vertical I piece on the floor, in the third column of the spawn box
TowerGrid ==
    [ i \in DOMAIN EmptyGrid |->
        IF i \div BOARD_WIDTH >= BOARD_HEIGHT - 4 /\ i % BOARD_WIDTH = SPAWN_X + 2
        THEN CharCode("I") ELSE 0 ]

\* The generator of a game whose current bag came out of the shuffle so that
\* next() deals order[1], order[2], ...: it has dealt d pieces of the bag.
GeneratorAfter(order, d) ==
    [ bag |-> Reverse(SubSeq(order, d + 2, Len(order))),
      preview |-> << Piece(order[d + 1]) >>,
      drawn |-> SubSeq(order, 1, d + 1) ]

\* Line totals of the games in progress (levels 1, 1, 3 and 19; at level 20
\* the drop interval reaches its floor).
MidLines == { 0, 8, 20, 188 }

\* The score of a game that cleared its lines one at a time and never
\* dropped a piece: ten singles at each completed level, the rest at the
\* level the game is in.
SinglesScore(lines) ==
    LET completed == lines \div LINES_PER_LEVEL
        rest == lines % LINES_PER_LEVEL
    IN  CalculateLineScore(1, 1) * (LINES_PER_LEVEL * ((completed * (completed + 1)) \div 2))
            + rest * CalculateLineScore(1, completed + 1)

GameInProgress(current, hold, lines) ==
    [ status |-> "PLAYING",
      currentPiece |-> Piece(current),
      currentX |-> SPAWN_X,
      currentY |-> SPAWN_Y,
      holdPiece |-> hold,
      canHold |-> TRUE,
      nextPieces |-> << >>,
      score |-> SinglesScore(lines),
      lines |-> lines,
      level |-> (lines \div LINES_PER_LEVEL) + 1,
      dropInterval |-> CalculateDropInterval((lines \div LINES_PER_LEVEL) + 1),
      isDirty |-> FALSE ]

\* initialState of the GameController constructor
InitialState ==
    [ status |-> "MENU",
      currentPiece |-> Null,
      currentX |-> 0,
      currentY |-> 0,
      holdPiece |-> Null,
      canHold |-> TRUE,
      nextPieces |-> << >>,
      score |-> 0,
      lines |-> 0,
      level |-> 1,
      dropInterval |-> INITIAL_DROP_INTERVAL,
      isDirty |-> TRUE ]

\* new GameController()
InitConstructed ==
    /\ state = InitialState
    /\ grid = EmptyGrid
    /\ generator \in { NewGenerator(r) : r \in GameRandom }

\* An I piece spawned over a well, 1 row deep to as deep as the spawn
\* position allows; the games that have cleared lines stand at the well
\* four rows deep.
InitWell ==
    \E k \in 1..(BOARD_HEIGHT - 2) : \E lines \in MidLines :
        LET order == << "I", "L", "J", "Z", "S", "T", "O" >>
            s == GameInProgress("I", Null, lines)
        IN  /\ lines = 0 \/ k = 4
            /\ (4 * k + BOARD_WIDTH * lines) % 4 = 0
            /\ IsValidPosition(WellGrid(k), Piece("I"), SPAWN_X, SPAWN_Y)
            /\ grid = WellGrid(k)
            /\ generator = GeneratorAfter(order, 1)
            /\ state = [s EXCEPT !.nextPieces = generator.preview]

\* The first piece (T) was held, the second (I) stands on the floor, the
\* third (S) has spawned.
InitTower ==
    LET order == << "T", "I", "S", "Z", "J", "L", "O" >>
        s == GameInProgress("S", Piece("T"), 0)
    IN  /\ grid = TowerGrid
        /\ generator = GeneratorAfter(order, 3)
        /\ state = [s EXCEPT !.nextPieces = generator.preview]

\* A well four rows deep standing on a full row: the row that clearLines
\* leaves on the floor when it is given two full rows.
SurvivorGrid ==
    [ i \in DOMAIN EmptyGrid |->
        IF \/ i \div BOARD_WIDTH = BOARD_HEIGHT - 1
           \/ (i \div BOARD_WIDTH >= BOARD_HEIGHT - 5 /\ i % BOARD_WIDTH < 4)
        THEN CharCode("I") ELSE 0 ]

\* An I piece spawned over that well, in a game at level 1 whose four lines
\* were two double clears.
InitSurvivor ==
    LET order == << "I", "L", "J", "Z", "S", "T", "O" >>
        s == GameInProgress("I", Null, 4)
    IN  /\ IsValidPosition(SurvivorGrid, Piece("I"), SPAWN_X, SPAWN_Y)
        /\ grid = SurvivorGrid
        /\ generator = GeneratorAfter(order, 1)
        /\ state = [s EXCEPT !.nextPieces = generator.preview,
                             !.score = 2 * CalculateLineScore(2, 1)]

\* The event names the handlers of the channel specification listen to.
EventNames == { "GAME_OVER", "LINE_CLEARED" }

\* No kind of piece is followed.
NoDrought == [kind |-> "none", seen |-> FALSE, since |-> 0]

\* new Store(initialState), new EventBus(): nobody has subscribed
InitWiring ==
    /\ drought = NoDrought
    /\ subscribers = << >>
    /\ events = [ e \in { } |-> << >> ]
    /\ history = [ since |-> [ key \in ({ "store" } \cup EventNames) \X Callbacks |-> 0 ],
                   issued |-> { },
                   cancelled |-> { } ]

\* new InputHandler(), new GameLoop(), and nothing held down
InitShell ==
    /\ input = [keyStates |-> << >>, listening |-> FALSE]
    /\ loop = [ animationId |-> 0, lastFrameTime |-> 0, dropAccumulator |-> 0,
                requested |-> 0, pending |-> { } ]
    /\ now = 0
    /\ keyboard = { }

Init ==
    /\ InitConstructed \/ InitWell \/ InitTower \/ InitSurvivor
    /\ InitShell
    /\ InitWiring
    /\ calls = 0

(***************************************************************************)
(* The entry points as actions.  Commit(c) makes the context c that the    *)
(* call produced the next state.                                           *)
(***************************************************************************)
Commit(c) ==
    \E done \in { c } :
        /\ state' = done.state
        /\ grid' = done.grid
        /\ generator' = done.generator
        /\ calls' = IF done = Entry THEN calls ELSE calls + 1
        /\ calls' <= MaxCalls
        /\ UNCHANGED << shell, wiring >>

CallStartGame ==
    \E r \in GameRandom : Commit(StartGame(Entry, r))

CallRestart ==
    \E r \in GameRandom : Commit(ControllerRestart(Entry, r))

CallPause == Commit(Pause(Entry))

CallResume == Commit(Resume(Entry))

CallMoveLeft == Commit(MoveLeft(Entry))

CallMoveRight == Commit(MoveRight(Entry))

\* moveDown() as the loop's gravity step calls it
CallMoveDown ==
    \E r \in RandomFor(generator) : Commit(MoveDown(Entry, r).context)

CallSoftDrop ==
    \E r \in RandomFor(generator) : Commit(SoftDrop(Entry, r))

CallHardDrop ==
    \E r \in RandomFor(generator) : Commit(HardDrop(Entry, r))

CallRotate ==
    \E direction \in { "clockwise", "counterclockwise" } :
        Commit(Rotate(Entry, direction))

CallHold ==
    \E r \in RandomFor(generator) : Commit(Hold(Entry, r))

Next ==
    \/ CallStartGame
    \/ CallRestart
    \/ CallPause
    \/ CallResume
    \/ CallMoveLeft
    \/ CallMoveRight
    \/ CallMoveDown
    \/ CallSoftDrop
    \/ CallHardDrop
    \/ CallRotate
    \/ CallHold

Spec == Init /\ [][Next]_vars

(***************************************************************************)
(* Board.clearLines on its own: the boards are stacks of empty, partly     *)
(* filled and full rows with at most four full rows, the filled rows lying *)
(* on the floor as locked pieces leave them.                               *)
(***************************************************************************)
RowKinds == { "empty", "partial", "full" }

\* Row y of kind "partial" has its first 1 + (y % (BOARD_WIDTH - 1)) cells
\* filled with a tag of its own, so that rows can be told apart.
RowCell(kind, x, y) ==
    CASE kind = "empty" -> 0
      [] kind = "full" -> CharCode("I")
      [] kind = "partial" ->
            IF x <= y % (BOARD_WIDTH - 1)
            THEN CharCode(PieceTypeValues[(y % Len(PieceTypeValues)) + 1])
            ELSE 0

BoardOf(kinds) ==
    [ i \in DOMAIN EmptyGrid |->
        RowCell(kinds[i \div BOARD_WIDTH], i % BOARD_WIDTH, i \div BOARD_WIDTH) ]

Stacks ==
    { kinds \in [0..(BOARD_HEIGHT - 1) -> RowKinds] :
        /\ \A y \in 1..(BOARD_HEIGHT - 1) :
              kinds[y] = "empty" => kinds[y - 1] = "empty"
        /\ Cardinality({ y \in DOMAIN kinds : kinds[y] = "full" }) <= 4 }

InitBoard ==
    /\ grid \in { BoardOf(kinds) : kinds \in Stacks }
    /\ state = InitialState
    /\ generator = NewGenerator(NoRandom)
    /\ InitShell
    /\ InitWiring
    /\ calls = 0

CallClearLines ==
    /\ grid' = ClearLines(grid).grid
    /\ calls' = IF ClearLines(grid).linesCleared > 0 THEN calls + 1 ELSE calls
    /\ UNCHANGED << state, generator, shell, wiring >>

NextBoard == CallClearLines

SpecBoard == InitBoard /\ [][NextBoard]_vars

(***************************************************************************)
(* The PieceGenerator on its own, constructed with every outcome of the    *)
(* shuffle.                                                                *)
(***************************************************************************)
\* Every random source: r[i] ranges over 0..i.
AllRandom == RandomSource(Len(PieceTypeValues) - 1)

\* The record of the pieces dealt after next() has returned piece.
Returned(d, piece) ==
    IF piece.type = d.kind
    THEN [d EXCEPT !.seen = TRUE, !.since = 0]
    ELSE [d EXCEPT !.since = IF d.seen THEN @ + 1 ELSE @]

InitGen ==
    /\ generator \in { NewGenerator(r) : r \in AllRandom }
    /\ drought \in { [NoDrought EXCEPT !.kind = PieceTypeValues[i]] :
                        i \in 1..Len(PieceTypeValues) }
    /\ state = InitialState
    /\ grid = EmptyGrid
    /\ InitShell
    /\ subscribers = << >>
    /\ events = [ e \in { } |-> << >> ]
    /\ history = [ since |-> [ key \in ({ "store" } \cup EventNames) \X Callbacks |-> 0 ],
                   issued |-> { },
                   cancelled |-> { } ]
    /\ calls = 0

CallNext ==
    /\ \E r \in RandomFor(generator) :
          \E n \in { GeneratorNext(generator, r) } :
              /\ generator' = n.generator
              /\ drought' = Returned(drought, n.piece)
    /\ UNCHANGED << state, grid, shell, subscribers, events, history, calls >>

CallReset ==
    /\ \E r \in GameRandom : generator' = GeneratorReset(generator, r)
    /\ drought' = [drought EXCEPT !.seen = FALSE, !.since = 0]
    /\ UNCHANGED << state, grid, shell, subscribers, events, history, calls >>

NextGen ==
    \/ CallNext
    \/ CallReset

SpecGen == InitGen /\ [][NextGen]_vars

(***************************************************************************)
(* Board.isValidPosition and Board.getHardDropDistance on their own: a     *)
(* piece of every type and rotation at every position around a board whose *)
(* filled rows are all partly filled or all full.  state holds the piece   *)
(* and the position the board is asked about.                              *)
(***************************************************************************)
InitPiece ==
    /\ grid \in { BoardOf(kinds) :
                     kinds \in { k \in Stacks :
                                   \/ \A y \in DOMAIN k : k[y] # "full"
                                   \/ \A y \in DOMAIN k : k[y] # "partial" } }
    /\ \E type \in PieceTypes : \E rotation \in 0..3 :
       \E x \in (0 - 3)..BOARD_WIDTH : \E y \in (0 - 4)..BOARD_HEIGHT :
          state = [InitialState EXCEPT
                      !.currentPiece = [type |-> type, rotation |-> rotation],
                      !.currentX = x,
                      !.currentY = y]
    /\ generator = NewGenerator(NoRandom)
    /\ InitShell
    /\ InitWiring
    /\ calls = 0

\* isValidPosition(piece, x, y) for the piece rotated or one cell away, as
\* the action layer asks before it moves the piece there
CallIsValidPosition ==
    /\ \E piece \in { state.currentPiece,
                      PieceRotate(state.currentPiece, "clockwise"),
                      PieceRotate(state.currentPiece, "counterclockwise") } :
       \E dx \in { 0 - 1, 0, 1 } : \E dy \in { 0, 1 } :
          /\ IsValidPosition(grid, piece, state.currentX + dx, state.currentY + dy)
          /\ state' = [state EXCEPT !.currentPiece = piece,
                                    !.currentX = @ + dx,
                                    !.currentY = @ + dy]
    /\ UNCHANGED << grid, generator, shell, wiring, calls >>

\* getHardDropDistance(piece, x, y), and the piece moved down by it
CallGetHardDropDistance ==
    /\ state' = [state EXCEPT
                    !.currentY = @ + GetHardDropDistance(grid, state.currentPiece,
                                                         state.currentX, @)]
    /\ UNCHANGED << grid, generator, shell, wiring, calls >>

NextPiece ==
    \/ CallIsValidPosition
    \/ CallGetHardDropDistance

SpecPiece == InitPiece /\ [][NextPiece]_vars

(***************************************************************************)
(* The Store and the EventBus on their own, with clients that subscribe,   *)
(* unsubscribe, set the state and emit.  history.since[channel, callback]  *)
(* is 0 when the callback is not subscribed to the channel ("store" or an  *)
(* event name) and else the number of the call that subscribed it;         *)
(* history.issued are the callbacks subscribe returned an unsubscribe      *)
(* function for, history.cancelled those whose function was called.        *)
(***************************************************************************)
InitChannels ==
    /\ state = InitialState
    /\ grid = EmptyGrid
    /\ generator = NewGenerator(NoRandom)
    /\ InitShell
    /\ InitWiring
    /\ calls = 0

\* The partial states of the clients' setState calls.
Partials ==
    { [isDirty |-> FALSE],
      [score |-> 100, isDirty |-> TRUE],
      [status |-> "PAUSED", currentX |-> 1] }

\* The callbacks whose removal the calls of trace asked for.
Removed(trace) ==
    { trace[i].target : i \in { j \in 1..Len(trace) : trace[j].op = "delete" } }

\* history after the callbacks of removed left the channel
Forget(h, channel, removed) ==
    [h EXCEPT !.since = [ key \in DOMAIN @ |->
                            IF key[1] = channel /\ key[2] \in removed
                            THEN 0 ELSE @[key] ]]

\* history after callback joined the channel with the call numbered calls + 1
Remember(h, channel, callback) ==
    [h EXCEPT !.since[<< channel, callback >>] = IF @ = 0 THEN calls + 1 ELSE @]

Count ==
    /\ calls' = calls + 1
    /\ calls' <= MaxCalls
    /\ UNCHANGED << grid, generator, shell, drought >>

CallSubscribe ==
    \E subscriber \in Callbacks :
        /\ subscribers' = Subscribe(subscribers, subscriber)
        /\ history' = [Remember(history, "store", subscriber) EXCEPT
                          !.issued = @ \cup { subscriber }]
        /\ Count
        /\ UNCHANGED << state, events >>

CallUnsubscribe ==
    \E subscriber \in history.issued :
        /\ subscribers' = Unsubscribe(subscribers, subscriber)
        /\ history' = [Forget(history, "store", { subscriber }) EXCEPT
                          !.cancelled = @ \cup { subscriber }]
        /\ Count
        /\ UNCHANGED << state, events >>

CallSetState ==
    \E partialState \in Partials :
        \E done \in { StoreSetState(state, subscribers, partialState) } :
            /\ state' = done.state
            /\ subscribers' = done.subscribers
            /\ history' = [Forget(history, "store", Removed(done.trace)) EXCEPT
                              !.cancelled = @ \cup Removed(done.trace)]
            /\ Count
            /\ UNCHANGED events

CallOn ==
    \E event \in EventNames : \E handler \in Callbacks :
        /\ events' = On(events, event, handler)
        /\ history' = Remember(history, event, handler)
        /\ Count
        /\ UNCHANGED << state, subscribers >>

CallOff ==
    \E event \in EventNames : \E handler \in Callbacks :
        /\ events' = Off(events, event, handler)
        /\ history' = Forget(history, event, { handler })
        /\ Count
        /\ UNCHANGED << state, subscribers >>

CallEmit ==
    \E event \in EventNames : \E data \in { 1, 4 } :
        \E done \in { BusEmit(events, event, data) } :
            /\ events' = done.events
            /\ history' = Forget(history, event, Removed(done.trace))
            /\ Count
            /\ UNCHANGED << state, subscribers >>

NextChannels ==
    \/ CallSubscribe
    \/ CallUnsubscribe
    \/ CallSetState
    \/ CallOn
    \/ CallOff
    \/ CallEmit

SpecChannels == InitChannels /\ [][NextChannels]_vars

(***************************************************************************)
(* The controller with its keyboard, its frames and its buttons.  A key    *)
(* that is held down sends key-down events again and again (the browser's  *)
(* auto-repeat) until it is released.  keyboard has one entry for every    *)
(* key held down: when it was pressed, how many times handleKeyAction      *)
(* called its gameActions method since, how many of these calls came from  *)
(* a poll and when the last of them did.                                   *)
(***************************************************************************)
\* The keys the player uses: a movement key, the soft drop, a one-shot
\* action and the pause key.
Keys == { KeyCode.LEFT, KeyCode.DOWN, KeyCode.SPACE, KeyCode.P }

\* The time in ms from one event loop turn to the next frame: shorter than
\* ARR_INTERVAL, equal to it, and DAS_DELAY (more than the loop's cap).
Delays == { 20, ARR_INTERVAL, DAS_DELAY }

Pressed(key) ==
    [ key |-> key, pressedAt |-> now, fired |-> 0, repeats |-> 0,
      lastRepeat |-> now ]

\* The calls among fired that handleKeyAction made for key.
FiredFor(fired, key) ==
    Cardinality({ i \in 1..Len(fired) : fired[i].key = key })

\* The keyboard kb after a handler ran at time t and made the calls fired;
\* polled tells that the handler was the loop's.
Observe(kb, fired, t, polled) ==
    { [ e EXCEPT
          !.fired = @ + FiredFor(fired, e.key),
          !.repeats = IF polled THEN @ + FiredFor(fired, e.key) ELSE @,
          !.lastRepeat = IF polled /\ FiredFor(fired, e.key) > 0 THEN t ELSE @ ]
      : e \in kb }

\* The program after the handler that produced k, at time t: kb is the
\* keyboard then, polled tells that the handler was the loop's.
Run(k, kb, t, polled) ==
    \E done \in { k } :
        /\ state' = done.game.state
        /\ grid' = done.game.grid
        /\ generator' = done.game.generator
        /\ input' = done.input
        /\ loop' = done.loop
        /\ keyboard' = Observe(kb, done.fired, t, polled)
        /\ now' = t
        /\ calls' = IF << state', grid', generator', input', loop', keyboard', now' >>
                         = << state, grid, generator, input, loop, keyboard, now >>
                     THEN calls
                     ELSE calls + 1
        /\ calls' <= MaxEvents
        /\ UNCHANGED wiring

\* A key goes down: the keydown event reaches handleKeyDown if it listens.
KeyPress ==
    \E key \in Keys : \E r \in RandomFor(generator) :
        /\ \A e \in keyboard : e.key # key
        /\ Cardinality(keyboard) < MaxKeys
        /\ Run(IF input.listening
               THEN HandleKeyDown(ControllerEntry, key, now, r)
               ELSE ControllerEntry,
               keyboard \cup { Pressed(key) }, now, FALSE)

\* A key that is held down sends keydown again.
KeyRepeat ==
    \E e \in keyboard : \E r \in RandomFor(generator) :
        Run(IF input.listening
            THEN HandleKeyDown(ControllerEntry, e.key, now, r)
            ELSE ControllerEntry,
            keyboard, now, FALSE)

\* A key goes up: the keyup event reaches handleKeyUp if it listens.
KeyRelease ==
    \E e \in keyboard :
        Run(IF input.listening
            THEN HandleKeyUp(ControllerEntry, e.key)
            ELSE ControllerEntry,
            keyboard \ { e }, now, FALSE)

\* The program when the browser calls the callback of the pending handle h.
Arrived(k, h) == [k EXCEPT !.loop.pending = @ \ { h }]

\* A requested frame arrives, d ms after the last event.
Frame ==
    \E h \in loop.pending : \E d \in Delays : \E r \in RandomFor(generator) :
        Run(Loop(Arrived(ControllerEntry, h), now + d, r), keyboard, now + d, TRUE)

\* The start button: gameController.start()
ClickStart ==
    \E r \in GameRandom :
        Run(GameControllerStart(ControllerEntry, now, r), keyboard, now, TRUE)

\* The restart buttons: gameController.restart()
ClickRestart ==
    \E r \in GameRandom :
        Run(GameControllerRestart(ControllerEntry, now, r), keyboard, now, TRUE)

\* The pause button: gameController.togglePause()
ClickPause == Run(TogglePause(ControllerEntry, now), keyboard, now, FALSE)

\* A game of the controller in progress at level 19, its loop running.
InitRunning ==
    /\ InitWell
    /\ state.lines = 188
    /\ grid = WellGrid(4)
    /\ input = [keyStates |-> << >>, listening |-> TRUE]
    /\ loop = [ animationId |-> 1, lastFrameTime |-> 0, dropAccumulator |-> 0,
                requested |-> 1, pending |-> { 1 } ]
    /\ now = 0
    /\ keyboard = { }

InitInput ==
    /\ (InitConstructed /\ InitShell) \/ InitRunning
    /\ InitWiring
    /\ calls = 0

NextInput ==
    \/ KeyPress
    \/ KeyRepeat
    \/ KeyRelease
    \/ Frame
    \/ ClickStart
    \/ ClickRestart
    \/ ClickPause

SpecInput == InitInput /\ [][NextInput]_vars

(***************************************************************************)
(* The GameLoop on its own: start() and stop() called in any order between *)
(* the frames, for a program just constructed and for a game in progress.  *)
(***************************************************************************)
\* gameLoop.start()
CallLoopStart ==
    \E r \in RandomFor(generator) :
        Run(LoopStart(ControllerEntry, now, r), keyboard, now, TRUE)

\* gameLoop.stop()
CallLoopStop == Run(LoopStop(ControllerEntry), keyboard, now, FALSE)

NextLoop ==
    \/ CallLoopStart
    \/ CallLoopStop
    \/ Frame

SpecLoop == InitInput /\ [][NextLoop]_vars

(***************************************************************************)
(* A game left to gravity: the player starts it and then touches nothing,  *)
(* and the browser keeps delivering the frame the loop requested, until    *)
(* the game is over.  Every frame that is requested arrives (weak          *)
(* fairness): requestAnimationFrame calls its callback while the page is   *)
(* shown.                                                                  *)
(***************************************************************************)
\* The time in ms from one frame to the next: less than the loop's cap of
\* 100 ms, and more.
GravityDelays == { 50, 250 }

\* The program after the handler that produced k, at time t.
Settle(k, t) ==
    \E done \in { k } :
        /\ state' = done.game.state
        /\ grid' = done.game.grid
        /\ generator' = done.game.generator
        /\ input' = done.input
        /\ loop' = done.loop
        /\ now' = t
        /\ UNCHANGED << keyboard, calls, wiring >>

InitGravity ==
    /\ InitConstructed
    /\ InitShell
    /\ InitWiring
    /\ calls = 0

\* The start button, once
GravityStart ==
    /\ state.status = "MENU"
    /\ \E r \in GameRandom : Settle(GameControllerStart(ControllerEntry, now, r), now)

\* The requested frame arrives, d ms after the last one.
GravityFrame ==
    /\ state.status # "GAME_OVER"
    /\ \E h \in loop.pending : \E d \in GravityDelays : \E r \in RandomFor(generator) :
          /\ now + d <= MaxTime
          /\ Settle(Loop(Arrived(ControllerEntry, h), now + d, r), now + d)

NextGravity ==
    \/ GravityStart
    \/ GravityFrame

\* What GravityFrame requires of the state, and the time it sets.  A step of
\* NextGravity that changes now is a GravityFrame step, and GravityFrame can
\* be taken wherever FrameDue can: fairness for FrameDue on now is fairness
\* for the frames.
FrameDue ==
    /\ state.status # "GAME_OVER"
    /\ loop.pending # { }
    /\ \E d \in GravityDelays : now + d <= MaxTime /\ now' = now + d

SpecGravity ==
    /\ InitGravity
    /\ [][NextGravity]_vars
    /\ WF_now(FrameDue)

(***************************************************************************)
(* Properties                                                              *)
(***************************************************************************)
\* The game is in PLAYING with a falling piece.
Falling == state.status = "PLAYING" /\ state.currentPiece # Null

\* What the seven piece actions make of the current state.
PieceCalls(r) ==
    { MoveLeft(Entry), MoveRight(Entry), MoveDown(Entry, r).context,
      SoftDrop(Entry, r), HardDrop(Entry, r),
      Rotate(Entry, "clockwise"), Rotate(Entry, "counterclockwise"),
      Hold(Entry, r) }

\* What every call of the action layer makes of the current state (the piece
\* actions shuffle only when they refill the bag, startGame always does).
AllCalls ==
    UNION { PieceCalls(r) : r \in RandomFor(generator) }
        \cup { StartGame(Entry, r) : r \in GameRandom }
        \cup { Pause(Entry), Resume(Entry) }

\* The number of events named event among emitted.
CountEvent(emitted, event) ==
    Cardinality({ i \in 1..Len(emitted) : emitted[i].event = event })

\* The rows of g without an empty cell.
FullRows(g) ==
    { y \in 0..(BOARD_HEIGHT - 1) :
        \A x \in 0..(BOARD_WIDTH - 1) : g[GetIndex(x, y)] # 0 }

\* The points of the scoring table for n rows.
TableScore(n) ==
    CASE n = 0 -> 0
      [] n = 1 -> 100
      [] n = 2 -> 300
      [] n = 3 -> 500
      [] n = 4 -> 800

\* C1: whenever a falling piece exists it is at a valid position: no cell of
\* it overlaps a filled board cell, is outside the columns or is below the
\* floor.
C1_CollisionInvariant ==
    state.currentPiece # Null =>
        IsValidPosition(grid, state.currentPiece, state.currentX, state.currentY)

\* The board clearLines is specified to leave: the rows that were not full,
\* in their order, at the bottom, under as many empty rows as were full.
RECURSIVE KeptRowsFrom(_, _)
KeptRowsFrom(g, y) ==
    IF y >= BOARD_HEIGHT
    THEN << >>
    ELSE (IF y \in FullRows(g) THEN << >> ELSE << y >>) \o KeptRowsFrom(g, y + 1)

Compacted(g) ==
    LET kept == KeptRowsFrom(g, 0)
        k == BOARD_HEIGHT - Len(kept)
    IN  [ i \in DOMAIN g |->
            IF i \div BOARD_WIDTH < k
            THEN 0
            ELSE g[GetIndex(i % BOARD_WIDTH, kept[(i \div BOARD_WIDTH) - k + 1])] ]

\* C2: clearLines removes exactly the rows that were full, keeps the other
\* rows intact and in order at the bottom, leaves as many empty rows at the
\* top as there were full rows, and returns that number.
C2_LineClearShift ==
    /\ ClearLines(grid).grid = Compacted(grid)
    /\ ClearLines(grid).linesCleared = Cardinality(FullRows(grid))

\* C3: when the status is not PLAYING or there is no falling piece, none of
\* moveLeft, moveRight, moveDown, softDrop, hardDrop, rotate and hold emits
\* an event, calls setState (so isDirty is not set and no subscriber is
\* notified), changes the board or draws from the generator.
C3_GuardedNoOp ==
    ~Falling =>
        \A r \in RandomFor(generator) :
            /\ \A c \in PieceCalls(r) :
                  /\ c.emitted = << >>
                  /\ c.notified = 0
                  /\ c.state = state
                  /\ c.grid = grid
                  /\ c.generator = generator
            /\ ~MoveDown(Entry, r).moved

C3_Witness ==
    /\ state.status = "PAUSED"
    /\ state.currentPiece # Null
    /\ state.currentY > SPAWN_Y

\* C4: a call makes the status GAME_OVER exactly when it locked a piece and
\* the piece the generator dealt next is invalid at the spawn position on
\* the board the lock left; that call sets currentPiece to null and emits
\* GAME_OVER exactly once, no other call emits it, and in GAME_OVER no piece
\* action (nor the gravity step moveDown) changes anything or emits.
C4_GameOverTrigger ==
    /\ \A c \in AllCalls :
          LET becomes == c.state.status = "GAME_OVER" /\ state.status # "GAME_OVER"
              blocked ==
                  /\ HasEvent(c.emitted, "PIECE_LOCK")
                  /\ ~IsValidPosition(c.grid, Head(GetPreview(generator)),
                                      SPAWN_X, SPAWN_Y)
          IN  /\ becomes <=> blocked
              /\ becomes => c.state.currentPiece = Null
              /\ CountEvent(c.emitted, "GAME_OVER") = (IF becomes THEN 1 ELSE 0)
    /\ state.status = "GAME_OVER" =>
          /\ state.currentPiece = Null
          /\ \A r \in RandomFor(generator) : \A c \in PieceCalls(r) : c = Entry

C4_Witness ==
    /\ state.status = "GAME_OVER"
    /\ state.currentPiece = Null
    /\ grid # EmptyGrid

\* C5: in every status, restart() leaves status PLAYING, an empty board,
\* score 0, lines 0, level 1, the initial drop interval, no held piece,
\* canHold true and a newly spawned piece at the spawn position.
C5_RestartFresh ==
    \A r \in GameRandom :
        LET c == ControllerRestart(Entry, r)
        IN  /\ c.state.status = "PLAYING"
            /\ c.grid = EmptyGrid
            /\ c.state.score = 0
            /\ c.state.lines = 0
            /\ c.state.level = 1
            /\ c.state.dropInterval = INITIAL_DROP_INTERVAL
            /\ c.state.holdPiece = Null
            /\ c.state.canHold
            /\ c.state.currentPiece # Null
            /\ c.state.currentPiece.rotation = 0
            /\ c.state.currentX = SPAWN_X
            /\ c.state.currentY = SPAWN_Y
            /\ HasEvent(c.emitted, "PIECE_SPAWN")

\* The transitions of the status table.
StatusTable ==
    { << "MENU", "PLAYING" >>, << "PLAYING", "PAUSED" >>, << "PAUSED", "PLAYING" >>,
      << "PLAYING", "GAME_OVER" >>, << "GAME_OVER", "PLAYING" >>,
      << "GAME_OVER", "MENU" >> }

C7_SevenBag ==
    LET drawn == generator.drawn
        bag == generator.bag
    IN  /\ Len(drawn) + Len(bag) = Len(PieceTypeValues)
        /\ \A i, j \in 1..Len(drawn) : drawn[i] = drawn[j] => i = j
        /\ { drawn[i] : i \in 1..Len(drawn) } \cup { bag[i] : i \in 1..Len(bag) }
              = PieceTypes
        /\ Len(drawn) >= 1
        /\ generator.preview = << Piece(drawn[Len(drawn)]) >>

C7_Witness ==
    /\ generator.bag = << >>
    /\ { generator.drawn[i] : i \in 1..Len(generator.drawn) } = PieceTypes
    /\ generator.drawn[1] = "O"

\* C8: a lock that finds n full rows, n in 1..4, at level L adds
\* TableScore(n) * L to the score and n to lines; a lock that finds no full
\* row changes neither.  (The lock is reached by hardDrop, whose own 2 points
\* per row are set apart, and by moveDown when the piece rests.  The score
\* before the lock is a number.)
C8_LineClearScoring ==
    (Falling /\ state.score # NaN) =>
        \A r \in RandomFor(generator) :
            LET d == GetHardDropDistance(grid, state.currentPiece,
                                         state.currentX, state.currentY)
                placed == PlacePiece(grid, state.currentPiece,
                                     state.currentX, state.currentY + d)
                n == Cardinality(FullRows(placed))
                dropped == HardDrop(Entry, r).state
                rested == MoveDown(Entry, r).context.state
            IN  n \in 0..4 =>
                  /\ dropped.score = state.score + 2 * d + TableScore(n) * state.level
                  /\ dropped.lines = state.lines + n
                  /\ d = 0 =>
                        /\ rested.score = state.score + TableScore(n) * state.level
                        /\ rested.lines = state.lines + n

C8_Witness ==
    /\ state.lines = 24
    /\ state.level = 3
    /\ state.score = SinglesScore(20) + 2 * (BOARD_HEIGHT - 4) + 2400

\* C9: with a falling piece at (x, y) in PLAYING, hardDrop locks the piece
\* at (x, y + d), d = getHardDropDistance, also when d = 0: it emits
\* PIECE_LOCK, the board is the one clearLines makes of the board with the
\* piece placed at (x, y + d), and the score grows by 2 * d plus the line
\* score; the drop's own SCORE_UPDATE (score + 2 * d) comes first when d > 0
\* and is absent when d = 0.  (The score before the drop is a number.)
C9_HardDrop ==
    (Falling /\ state.score # NaN) =>
        \A r \in RandomFor(generator) :
            LET d == GetHardDropDistance(grid, state.currentPiece,
                                         state.currentX, state.currentY)
                placed == PlacePiece(grid, state.currentPiece,
                                     state.currentX, state.currentY + d)
                cleared == ClearLines(placed)
                c == HardDrop(Entry, r)
            IN  /\ CountEvent(c.emitted, "PIECE_LOCK") = 1
                /\ c.grid = cleared.grid
                /\ c.state.score =
                      Plus(state.score + 2 * d,
                           CalculateLineScore(cleared.linesCleared, state.level))
                /\ IF d > 0
                   THEN c.emitted[1] = [event |-> "SCORE_UPDATE",
                                        data |-> state.score + 2 * d]
                   ELSE c.emitted[1].event = "PIECE_LOCK"

C9_Witness ==
    /\ Falling
    /\ state.currentY > SPAWN_Y
    /\ GetHardDropDistance(grid, state.currentPiece,
                           state.currentX, state.currentY) = 0
    /\ HasEvent(HardDrop(Entry, NoRandom).emitted, "PIECE_LOCK")

\* C10: in PLAYING with a falling piece, softDrop moves the piece one row
\* down, adds exactly 1 to the score and ends with SCORE_UPDATE when the row
\* below is free; when it is not, softDrop does what the lock sequence does
\* and nothing more (no point for the drop).  moveDown leaves the score alone
\* when it moves the piece.  (The score before the call is a number.)
C10_SoftDrop ==
    (Falling /\ state.score # NaN) =>
        \A r \in RandomFor(generator) :
            LET free == IsValidPosition(grid, state.currentPiece,
                                        state.currentX, state.currentY + 1)
                c == SoftDrop(Entry, r)
                m == MoveDown(Entry, r)
            IN  /\ m.moved <=> free
                /\ free =>
                      /\ c.state.currentY = state.currentY + 1
                      /\ c.state.score = state.score + 1
                      /\ c.emitted[Len(c.emitted)] =
                            [event |-> "SCORE_UPDATE", data |-> state.score + 1]
                      /\ CountEvent(c.emitted, "SCORE_UPDATE") = 1
                      /\ ~HasEvent(c.emitted, "PIECE_LOCK")
                      /\ m.context.state.score = state.score
                      /\ ~HasEvent(m.context.emitted, "SCORE_UPDATE")
                /\ ~free =>
                      /\ c = LockPiece(Entry, r)
                      /\ c = m.context
                      /\ HasEvent(c.emitted, "PIECE_LOCK")
                      /\ c.state.score # state.score + 1
                      /\ HasEvent(c.emitted, "SCORE_UPDATE") =>
                            HasEvent(c.emitted, "LINE_CLEARED")

C10_Witness ==
    /\ state.status = "PLAYING"
    /\ state.score % 100 = 1
    /\ state.currentY = SPAWN_Y + 1

\* C11: in every reachable state the level is floor(lines / 10) + 1.
C11_LevelInvariant == state.level = (state.lines \div 10) + 1

\* a lock cleared the four rows that took the game from 8 to 12 lines
C11_Witness == calls > 0 /\ state.lines = 12 /\ state.level = 2

\* max(1000 - 50 * (level - 1), 100)
ClaimedInterval(level) ==
    LET linear == 1000 - 50 * (level - 1)
    IN  IF linear > 100 THEN linear ELSE 100

\* What every call but startGame makes of the current state.
CallsWithinGame ==
    UNION { PieceCalls(r) : r \in RandomFor(generator) }
        \cup { Pause(Entry), Resume(Entry) }

\* C12: in every reachable state the gravity interval is
\* max(1000 - 50 * (level - 1), 100) ms, it lies between 100 and 1000, and no
\* call other than startGame increases it.
C12_DropInterval ==
    /\ state.dropInterval = ClaimedInterval(state.level)
    /\ state.dropInterval >= 100
    /\ state.dropInterval <= 1000
    /\ \A c \in CallsWithinGame : c.state.dropInterval <= state.dropInterval

\* a lock took the game to level 20, where 1000 - 50 * 19 is below the floor
C12_Witness == calls > 0 /\ state.level = 20 /\ state.dropInterval = 100

\* C13: in PLAYING with a falling piece and canHold true, hold stores a
\* base-rotation copy of the falling kind; with nothing held before, the next
\* piece of the supply becomes the falling piece; with a piece held before,
\* the held kind becomes the falling piece at rotation 0, nothing is drawn
\* from the supply and the preview is unchanged.  In both cases the falling
\* piece is at the spawn position, canHold is false and exactly one
\* HOLD_PIECE event is emitted.
C13_HoldEffect ==
    (Falling /\ state.canHold) =>
        \A r \in RandomFor(generator) :
            LET c == Hold(Entry, r)
                supplied == GeneratorNext(generator, r)
            IN  /\ c.state.holdPiece = [type |-> state.currentPiece.type, rotation |-> 0]
                /\ c.state.currentX = SPAWN_X
                /\ c.state.currentY = SPAWN_Y
                /\ c.state.canHold = FALSE
                /\ CountEvent(c.emitted, "HOLD_PIECE") = 1
                /\ Len(c.emitted) = 1
                /\ IF state.holdPiece = Null
                   THEN /\ c.state.currentPiece = supplied.piece
                        /\ c.state.currentPiece = Head(state.nextPieces)
                        /\ c.generator = supplied.generator
                        /\ c.state.nextPieces = supplied.generator.preview
                   ELSE /\ c.state.currentPiece =
                              [type |-> state.holdPiece.type, rotation |-> 0]
                        /\ c.generator = generator
                        /\ c.state.nextPieces = state.nextPieces

\* a rotated piece was exchanged with the held one
C13_Witness ==
    /\ Falling
    /\ state.canHold
    /\ state.holdPiece # Null
    /\ state.currentPiece.rotation # 0
    /\ Hold(Entry, NoRandom).state.holdPiece = Piece(state.currentPiece.type)

\* What canHold does around the calls: it is true after every call that
\* spawned a piece, and while it is false hold changes nothing and emits
\* nothing.
HoldLatch ==
    /\ \A c \in AllCalls :
          HasEvent(c.emitted, "PIECE_SPAWN") => c.state.canHold
    /\ ~state.canHold =>
          \A r \in RandomFor(generator) : Hold(Entry, r) = Entry

\* C14, as stated: canHold is true after every spawn; after a hold it stays
\* false until a lock sequence is followed by a successful spawn, and every
\* hold in between is a no-op.
C14_HoldOncePerPiece ==
    /\ HoldLatch
    /\ ~state.canHold =>
          \A c \in AllCalls :
              c.state.canHold =>
                  /\ HasEvent(c.emitted, "PIECE_LOCK")
                  /\ HasEvent(c.emitted, "PIECE_SPAWN")

\* C14, amended: canHold is true after every spawn; after a hold it stays
\* false until a lock sequence is followed by a successful spawn or startGame
\* begins a new game, and every hold in between is a no-op.
C14_HoldOncePerPieceOrNewGame ==
    /\ HoldLatch
    /\ ~state.canHold =>
          \A c \in AllCalls :
              c.state.canHold =>
                  \/ /\ HasEvent(c.emitted, "PIECE_LOCK")
                     /\ HasEvent(c.emitted, "PIECE_SPAWN")
                  \/ HasEvent(c.emitted, "GAME_START")

\* hold was used for the falling piece, and a lock with a spawn allows it again
C14_Witness ==
    /\ Falling
    /\ ~state.canHold
    /\ \E r \in RandomFor(generator) :
          LET c == HardDrop(Entry, r)
          IN  c.state.canHold /\ HasEvent(c.emitted, "PIECE_SPAWN")

\* The positions rotate tries, in order, as offsets from the current one.
KickOrder ==
    << << 0, 0 >>, << -1, 0 >>, << 1, 0 >>, << 0, -1 >>, << -2, 0 >>, << 2, 0 >> >>

\* The indices of KickOrder at which the piece rotated to rotation fits.
Fits(rotated) ==
    { k \in 1..Len(KickOrder) :
        IsValidPosition(grid, rotated, state.currentX + KickOrder[k][1],
                        state.currentY + KickOrder[k][2]) }

\* C15: in PLAYING with a falling piece, rotate commits the rotated shape at
\* the first valid position in the order (0,0), (-1,0), (+1,0), (0,-1),
\* (-2,0), (+2,0) and emits exactly one PIECE_ROTATE event; when none is
\* valid, rotation, x and y are unchanged, no event is emitted and the state
\* is not replaced.
C15_RotateFirstFit ==
    Falling =>
        \A direction \in { "clockwise", "counterclockwise" } :
            LET turn == IF direction = "clockwise" THEN 1 ELSE 3
                rotated == [ type |-> state.currentPiece.type,
                             rotation |-> (state.currentPiece.rotation + turn) % 4 ]
                fits == Fits(rotated)
                c == Rotate(Entry, direction)
            IN  IF fits = {}
                THEN c = Entry
                ELSE
                  LET first == CHOOSE k \in fits : \A j \in fits : k <= j
                  IN  /\ c.state.currentPiece = rotated
                      /\ c.state.currentX = state.currentX + KickOrder[first][1]
                      /\ c.state.currentY = state.currentY + KickOrder[first][2]
                      /\ c.emitted = << [event |-> "PIECE_ROTATE", data |-> direction] >>
                      /\ c.notified = 1

\* the rotated piece fits one column to the left and one to the right but
\* not where it is
C15_Witness ==
    /\ Falling
    /\ \E direction \in { "clockwise", "counterclockwise" } :
          LET turn == IF direction = "clockwise" THEN 1 ELSE 3
              rotated == [ type |-> state.currentPiece.type,
                           rotation |-> (state.currentPiece.rotation + turn) % 4 ]
          IN  /\ 1 \notin Fits(rotated)
              /\ 2 \in Fits(rotated)
              /\ 3 \in Fits(rotated)

\* no position of the order is valid: the rotation is refused
C15_WitnessRefused ==
    /\ Falling
    /\ \E turn \in { 1, 3 } :
          Fits([ type |-> state.currentPiece.type,
                 rotation |-> (state.currentPiece.rotation + turn) % 4 ]) = {}

\* C16: a loop invocation calls moveDown for gravity at most once, however
\* long ago the previous invocation was; it adds at most 100 ms to the
\* accumulator; and it calls moveDown not at all when status is not PLAYING.
C16_BoundedGravity ==
    loop.animationId # 0 =>
        \A d \in Delays : \A r \in RandomFor(generator) :
            LET k == Loop(ControllerEntry, now + d, r)
            IN  /\ k.gravity <= 1
                /\ state.status # "PLAYING" => k.gravity = 0
                /\ k.loop.dropAccumulator <= loop.dropAccumulator + 100

\* more than 100 ms have passed since the last frame of a game in PLAYING,
\* and the frame that arrives now takes the gravity step
C16_Witness ==
    /\ loop.animationId # 0
    /\ Falling
    /\ calls > 0
    /\ now + DAS_DELAY - loop.lastFrameTime > 100
    /\ Loop(ControllerEntry, now + DAS_DELAY, NoRandom).gravity = 1

\* The context c has the board, the falling piece and its position, the
\* held piece, canHold, the preview, score, lines and level of the current
\* state.
Kept(c) ==
    /\ c.grid = grid
    /\ c.state.currentPiece = state.currentPiece
    /\ c.state.currentX = state.currentX
    /\ c.state.currentY = state.currentY
    /\ c.state.holdPiece = state.holdPiece
    /\ c.state.canHold = state.canHold
    /\ c.state.nextPieces = state.nextPieces
    /\ c.state.score = state.score
    /\ c.state.lines = state.lines
    /\ c.state.level = state.level

StillPaused(c) == Kept(c) /\ c.state.status = "PAUSED"

\* C17: in PAUSED a loop invocation, a key poll and each piece action leave
\* the board, the falling piece, the held piece, canHold, the preview,
\* score, lines and level as they are, and the status PAUSED (so that no
\* sequence of them changes anything); pause followed by resume ends in
\* PLAYING with all of these as before.
C17_PausePreserves ==
    /\ state.status = "PAUSED" =>
          \A r \in RandomFor(generator) :
              /\ \A d \in Delays :
                    /\ StillPaused(Loop(ControllerEntry, now + d, r).game)
                    /\ StillPaused(InputUpdate(ControllerEntry, now + d, r).game)
              /\ \A c \in PieceCalls(r) : StillPaused(c)
    /\ state.status = "PLAYING" =>
          /\ Kept(Resume(Pause(Entry)))
          /\ Resume(Pause(Entry)).state.status = "PLAYING"

\* a game with a falling piece is paused, a key is down in keyStates and a
\* frame has rendered since the pause
C17_Witness ==
    /\ state.status = "PAUSED"
    /\ state.currentPiece # Null
    /\ input.keyStates # << >>
    /\ ~state.isDirty

NotHeld(key) == \A e \in keyboard : e.key # key

\* C18: a pause key (P or Escape) pressed in PLAYING leaves the status
\* PAUSED when handleKeyDown returns; pressed in PAUSED it leaves PLAYING.
C18_PauseKeyToggles ==
    \A key \in { "KeyP", "Escape" } :
        (input.listening /\ NotHeld(key)) =>
            LET k == HandleKeyDown(ControllerEntry, key, now, NoRandom)
            IN  /\ state.status = "PLAYING" => k.game.state.status = "PAUSED"
                /\ state.status = "PAUSED" => k.game.state.status = "PLAYING"

\* The keys of rotate, hard drop, hold and pause.
OneShotKeys ==
    { "ArrowUp", "KeyW", "KeyX", "KeyZ", "ControlLeft", "Space", "KeyC",
      "ShiftLeft", "KeyP", "Escape" }

\* The keys of left, right and soft drop.
MovementKeys == { "ArrowLeft", "KeyA", "ArrowRight", "KeyD", "ArrowDown", "KeyS" }

\* C19: a key of rotate, hard drop, hold or pause triggers its action
\* exactly once at the key-down of a press, and not again while it is held
\* down: not in a poll and not at a repeated key-down.
C19_OneShotOnce ==
    /\ \A e \in keyboard : e.key \in OneShotKeys => e.fired <= 1
    /\ \A key \in OneShotKeys : \A r \in RandomFor(generator) :
          /\ (input.listening /\ NotHeld(key)) =>
                FiredFor(HandleKeyDown(ControllerEntry, key, now, r).fired, key) = 1
          /\ \A d \in Delays :
                FiredFor(InputUpdate(ControllerEntry, now + d, r).fired, key) = 0

\* C20: a key of left, right or soft drop fires once at the key-down of a
\* press; while it is held, a poll fires it at most once, not at all before
\* 170 ms have passed since the press, and not less than 50 ms after the
\* poll that fired it last; when it is not held, no poll fires it.
C20_DasArrTiming ==
    \A key \in MovementKeys : \A r \in RandomFor(generator) :
        /\ (input.listening /\ NotHeld(key)) =>
              FiredFor(HandleKeyDown(ControllerEntry, key, now, r).fired, key) = 1
        /\ \A d \in Delays :
              LET fires == FiredFor(InputUpdate(ControllerEntry, now + d, r).fired, key)
              IN  /\ fires <= 1
                  /\ NotHeld(key) => fires = 0
                  /\ \A e \in keyboard :
                        e.key = key =>
                            /\ now + d < e.pressedAt + 170 => fires = 0
                            /\ (fires = 1 /\ e.repeats > 0) =>
                                  now + d - e.lastRepeat >= 50

\* a movement key was held long enough for two repeats, the second exactly
\* 50 ms after the first
C20_Witness ==
    \E e \in keyboard :
        /\ e.key \in MovementKeys
        /\ e.fired = 3
        /\ e.repeats = 2
        /\ e.lastRepeat = e.pressedAt + 170 + 50

\* C29: in every reachable state there is a falling piece exactly when the
\* status is PLAYING or PAUSED; in MENU and in GAME_OVER currentPiece is
\* null.
C29_PieceWhileInProgress ==
    (state.currentPiece # Null) <=> (state.status \in { "PLAYING", "PAUSED" })

\* a game ended: the lock sequence ran into game over and took the piece away
C29_Witness ==
    /\ calls > 0
    /\ state.status = "GAME_OVER"
    /\ state.currentPiece = Null

\* The names of the events of e after the i-th.
EventsAfter(e, i) == [ j \in 1..(Len(e) - i) |-> e[i + j].event ]

\* C30: a call emits PIECE_LOCK at most once; the events it emits after it
\* are, in this order, LINE_CLEARED and SCORE_UPDATE when the lock added to
\* the line total (and neither when it did not), LEVEL_UP exactly when the
\* level grew, and last one of PIECE_SPAWN and GAME_OVER; the handlers of
\* PIECE_LOCK find the piece on the board, at the position it had or at the
\* end of its hard drop.
C30_LockEventOrder ==
    \A c \in AllCalls :
        LET e == c.emitted
            locks == { i \in 1..Len(e) : e[i].event = "PIECE_LOCK" }
        IN  /\ Cardinality(locks) <= 1
            /\ \A i \in locks :
                  LET piece == state.currentPiece
                      cells == { << r, col >> \in (0..3) \X (0..3) :
                                   GetShape(piece)[r + 1][col + 1] # 0 }
                      cleared == IF c.state.lines > state.lines
                                 THEN << "LINE_CLEARED", "SCORE_UPDATE" >>
                                 ELSE << >>
                      levelUp == IF c.state.level > state.level
                                 THEN << "LEVEL_UP" >>
                                 ELSE << >>
                  IN  /\ e[i].data = piece
                      /\ \E last \in { "PIECE_SPAWN", "GAME_OVER" } :
                            EventsAfter(e, i) = cleared \o levelUp \o << last >>
                      /\ \E y \in { state.currentY,
                                     state.currentY
                                       + GetHardDropDistance(grid, piece,
                                                             state.currentX,
                                                             state.currentY) } :
                            \A rc \in cells :
                                y + rc[1] >= 0 =>
                                    c.observed[i][GetIndex(state.currentX + rc[2],
                                                           y + rc[1])]
                                        = CharCode(piece.type)

\* a lock cleared rows and raised the level: all five events were emitted
C30_Witness ==
    \E c \in AllCalls :
        /\ HasEvent(c.emitted, "PIECE_LOCK")
        /\ HasEvent(c.emitted, "LINE_CLEARED")
        /\ HasEvent(c.emitted, "LEVEL_UP")
        /\ HasEvent(c.emitted, "PIECE_SPAWN")

\* C26: a lock sequence that starts on a board without a full row leaves a
\* board without a full row, whether it ends in a spawn or in game over.
C26_NoFullRowSurvives ==
    FullRows(grid) = { } =>
        \A c \in AllCalls :
            HasEvent(c.emitted, "PIECE_LOCK") => FullRows(c.grid) = { }

\* The number of filled cells of g.
NonZero(g) == Cardinality({ i \in DOMAIN g : g[i] # 0 })

\* C27: the piece a lock sequence places (at the end of its hard drop, or
\* where it rests when moveDown locks it) has no cell above row 0 and none
\* on a filled cell, and the board the handlers of PIECE_LOCK find has
\* exactly 4 filled cells more than the board before.
C27_LockKeepsCells ==
    Falling =>
        \A r \in RandomFor(generator) :
            LET piece == state.currentPiece
                x == state.currentX
                y == state.currentY + GetHardDropDistance(grid, piece, x, state.currentY)
                cells == { << row, col >> \in (0..3) \X (0..3) :
                             GetShape(piece)[row + 1][col + 1] # 0 }
                c == HardDrop(Entry, r)
            IN  /\ \A rc \in cells :
                      /\ y + rc[1] >= 0
                      /\ GetCell(grid, x + rc[2], y + rc[1]) = 0
                /\ \A i \in 1..Len(c.emitted) :
                      c.emitted[i].event = "PIECE_LOCK" =>
                          NonZero(c.observed[i]) = NonZero(grid) + 4

\* C28: the lock sequences find at most 4 full rows, and the score is a
\* non-negative integer in every reachable state.
C28_ScoreDefined ==
    /\ state.score # NaN
    /\ state.score >= 0
    /\ Falling =>
          LET piece == state.currentPiece
              x == state.currentX
              d == GetHardDropDistance(grid, piece, x, state.currentY)
          IN  ClearLines(PlacePiece(grid, piece, x, state.currentY + d)).linesCleared
                  \in 0..4

\* The calls of the action layer change the board only with a lock sequence
\* or the start of a game: moveLeft, moveRight, rotate, hold, pause, resume
\* and a moveDown or softDrop that moves the piece leave every cell alone,
\* and so does the render step of the loop.
BoardKeptByCalls ==
    /\ \A c \in AllCalls :
          c.grid # grid =>
              \/ HasEvent(c.emitted, "PIECE_LOCK")
              \/ HasEvent(c.emitted, "GAME_START")
    /\ \A c \in { MoveLeft(Entry), MoveRight(Entry), Rotate(Entry, "clockwise"),
                   Rotate(Entry, "counterclockwise"), Pause(Entry), Resume(Entry) } :
          c.grid = grid
    /\ \A r \in RandomFor(generator) :
          /\ Hold(Entry, r).grid = grid
          /\ MoveDown(Entry, r).moved =>
                /\ MoveDown(Entry, r).context.grid = grid
                /\ SoftDrop(Entry, r).grid = grid
    /\ Render(ControllerEntry).game.grid = grid

\* C23 as stated: besides, no key poll changes a board cell.
C23_BoardFrame ==
    /\ BoardKeptByCalls
    /\ \A d \in Delays : \A r \in RandomFor(generator) :
          InputUpdate(ControllerEntry, now + d, r).game.grid = grid

\* C23: the board changes only in a lock sequence (placePiece, clearLines)
\* and when startGame clears it; the calls named in BoardKeptByCalls and the
\* render step never change a cell, and a key poll changes cells only when
\* the soft drop it repeats runs the lock sequence.
C23_BoardFrameButPolledLock ==
    /\ BoardKeptByCalls
    /\ \A d \in Delays : \A r \in RandomFor(generator) :
          LET k == InputUpdate(ControllerEntry, now + d, r)
          IN  k.game.grid # grid =>
                  /\ HasEvent(k.game.emitted, "PIECE_LOCK")
                  /\ \E i \in 1..Len(k.fired) : k.fired[i].key \in { KeyCode.DOWN, KeyCode.S }

\* a poll moved the piece to the left and the board was left alone while a
\* render was due
C23_Witness ==
    \E e \in keyboard :
        /\ e.key = KeyCode.LEFT
        /\ e.repeats > 0
        /\ grid # EmptyGrid
        /\ state.isDirty

\* C24: isValidPosition(piece, x, y) is true exactly when every occupied
\* cell (r, c) of the piece's current rotation has 0 <= x + c < width and
\* y + r < height and, when y + r >= 0, lies on an empty board cell; the
\* cells with y + r < 0 are not looked up on the board.
C24_IsValidPosition ==
    LET piece == state.currentPiece
        x == state.currentX
        y == state.currentY
        shape == PIECE_SHAPES[piece.type][piece.rotation + 1]
    IN  piece # Null =>
          (IsValidPosition(grid, piece, x, y)
             <=> \A r \in 0..3 : \A c \in 0..3 :
                    shape[r + 1][c + 1] # 0 =>
                        /\ 0 <= x + c
                        /\ x + c < BOARD_WIDTH
                        /\ y + r < BOARD_HEIGHT
                        /\ y + r >= 0 => grid[(y + r) * BOARD_WIDTH + (x + c)] = 0)

\* a piece with a cell above row 0 is accepted over a board that is not empty
C24_Witness ==
    /\ state.currentPiece # Null
    /\ grid # EmptyGrid
    /\ state.currentY < 0
    /\ GetShape(state.currentPiece)[1][2] # 0
    /\ IsValidPosition(grid, state.currentPiece, state.currentX, state.currentY)

\* C25: getHardDropDistance(piece, x, y) returns the d >= 0 for which the
\* positions (x, y + 1) .. (x, y + d) are all valid and (x, y + d + 1) is
\* not, for every piece, position and board (the position itself valid or
\* not).
C25_HardDropDistance ==
    LET piece == state.currentPiece
        x == state.currentX
        y == state.currentY
        d == GetHardDropDistance(grid, piece, x, y)
    IN  piece # Null =>
          /\ d >= 0
          /\ \A k \in 1..d : IsValidPosition(grid, piece, x, y + k)
          /\ ~IsValidPosition(grid, piece, x, y + d + 1)

\* a piece that starts above the board has three rows or more to fall and
\* comes to rest on the stack
C25_Witness ==
    /\ state.currentPiece # Null
    /\ state.currentY < 0
    /\ GetHardDropDistance(grid, state.currentPiece,
                           state.currentX, state.currentY) >= 3
    /\ IsValidPosition(EmptyGrid, state.currentPiece, state.currentX,
                       state.currentY + 1
                         + GetHardDropDistance(grid, state.currentPiece,
                                               state.currentX, state.currentY))

\* The calls of callbacks among trace.
CallsOf(trace) == SelectSeq(trace, LAMBDA t : t.op = "call")

\* trace calls, with argument, the callbacks subscribed to channel and no
\* others, in the order of their subscriptions and each once; a subscribed
\* callback is left out only when its removal was asked for earlier in the
\* same round, and no callback is called after that.
Delivers(channel, trace, argument) ==
    LET made == CallsOf(trace)
        Since(callback) == history.since[<< channel, callback >>]
    IN  /\ \A i \in 1..Len(made) :
              /\ made[i].argument = argument
              /\ Since(made[i].target) > 0
              /\ \A j \in (i + 1)..Len(made) :
                    Since(made[i].target) < Since(made[j].target)
        /\ \A callback \in Callbacks :
              Since(callback) > 0 =>
                  \/ \E i \in 1..Len(made) : made[i].target = callback
                  \/ \E i \in 1..Len(trace) :
                        /\ trace[i].op = "delete"
                        /\ trace[i].target = callback
        /\ \A i \in 1..Len(trace) : \A j \in (i + 1)..Len(trace) :
              trace[i].op = "delete" =>
                  ~(trace[j].op = "call" /\ trace[j].target = trace[i].target)

\* setState(partialState) replaces exactly the fields of partialState and
\* calls the subscribed callbacks in order with the new state.
SetStateNotifies ==
    \A partialState \in Partials :
        LET done == StoreSetState(state, subscribers, partialState)
        IN  /\ DOMAIN done.state = DOMAIN state
            /\ \A field \in DOMAIN state :
                  done.state[field] = IF field \in DOMAIN partialState
                                      THEN partialState[field]
                                      ELSE state[field]
            /\ Delivers("store", done.trace, done.state)

\* C21: every setState(partialState) makes a new state in which exactly the
\* fields given are replaced, then calls every subscribed callback once, in
\* the order of the subscriptions, with that state; a callback whose
\* unsubscribe function was called is not called again (a callback that was
\* subscribed again after that has a subscription of its own again).
C21_StoreNotification ==
    /\ SetStateNotifies
    /\ \A partialState \in Partials :
          LET made == CallsOf(StoreSetState(state, subscribers, partialState).trace)
          IN  \A i \in 1..Len(made) :
                  made[i].target \in history.cancelled =>
                      history.since[<< "store", made[i].target >>] > 0

\* two callbacks are subscribed, a third was unsubscribed, and the state has
\* been set
C21_Witness ==
    /\ Len(subscribers) = 2
    /\ \E callback \in history.cancelled :
          history.since[<< "store", callback >>] = 0
    /\ state # InitialState

\* C22: emit(event, data) calls with data the handlers registered for the
\* event and no others (none that is registered for another event only,
\* none that off removed), each once and in the order of their
\* registrations; for an event without handlers it calls nothing and
\* changes nothing.
C22_EventFanOut ==
    \A event \in EventNames : \A data \in { 1, 4 } :
        LET done == BusEmit(events, event, data)
        IN  /\ Delivers(event, done.trace, data)
            /\ (\A handler \in Callbacks : history.since[<< event, handler >>] = 0) =>
                  /\ done.trace = << >>
                  /\ done.events = events

\* two handlers listen to one event, and the handler of the other event was
\* removed with off
C22_Witness ==
    /\ DOMAIN events = EventNames
    /\ Len(events["GAME_OVER"]) = 2
    /\ events["LINE_CLEARED"] = << >>

\* The kinds of the pieces in a sequence of pieces.
Kinds(pieces) == [ i \in 1..Len(pieces) |-> pieces[i].type ]

\* C31: startGame called in MENU or GAME_OVER leaves a fresh game: status
\* PLAYING, every board cell 0, score 0, lines 0, level 1, the initial drop
\* interval, no held piece, canHold true, a generator that has dealt the
\* falling piece and the preview from a new bag, the falling piece unrotated
\* at the spawn position and valid there, and it emits GAME_START and then
\* PIECE_SPAWN (with that piece) and nothing else.
C31_StartGameFresh ==
    state.status \in { "MENU", "GAME_OVER" } =>
        \A r \in GameRandom :
            LET c == StartGame(Entry, r)
                dealt == << c.state.currentPiece.type >> \o Kinds(c.state.nextPieces)
            IN  /\ c.state.status = "PLAYING"
                /\ \A i \in DOMAIN c.grid : c.grid[i] = 0
                /\ c.state.score = 0
                /\ c.state.lines = 0
                /\ c.state.level = 1
                /\ c.state.dropInterval = 1000
                /\ c.state.holdPiece = Null
                /\ c.state.canHold
                /\ Len(c.state.nextPieces) = PREVIEW_COUNT
                /\ c.state.nextPieces = GetPreview(c.generator)
                /\ c.generator.drawn = dealt
                /\ Len(c.generator.bag) = Len(PieceTypeValues) - Len(dealt)
                /\ c.state.currentPiece # Null
                /\ c.state.currentPiece.rotation = 0
                /\ c.state.currentX = SPAWN_X
                /\ c.state.currentY = SPAWN_Y
                /\ IsValidPosition(c.grid, c.state.currentPiece, SPAWN_X, SPAWN_Y)
                /\ Len(c.emitted) = 2
                /\ c.emitted[1].event = "GAME_START"
                /\ c.emitted[2] = [event |-> "PIECE_SPAWN", data |-> c.state.currentPiece]

\* A game that ended with a stack on the board, a score, and a generator in
\* the middle of its bag.
C31_Witness ==
    /\ state.status = "GAME_OVER"
    /\ grid # EmptyGrid
    /\ state.score > 0
    /\ Len(generator.drawn) > PREVIEW_COUNT + 1

\* C32: startGame called while the status is PLAYING or PAUSED changes
\* nothing: status, board, falling piece, score, lines, level and generator
\* stay as they are, no setState is made and no event is emitted.
C32_StartGameGuarded ==
    state.status \in { "PLAYING", "PAUSED" } =>
        \A r \in GameRandom :
            LET c == StartGame(Entry, r)
            IN  /\ c.state = state
                /\ c.grid = grid
                /\ c.generator = generator
                /\ c.emitted = << >>
                /\ c.notified = 0

\* C33: pause called while the status is MENU, PAUSED or GAME_OVER, and
\* resume called while it is MENU, PLAYING or GAME_OVER, make no setState
\* (the state is not replaced and no subscriber is notified), emit no event
\* (so neither GAME_PAUSE nor GAME_RESUME) and change nothing else.
C33_PauseResumeGuarded ==
    /\ state.status \in { "MENU", "PAUSED", "GAME_OVER" } =>
          LET c == Pause(Entry)
          IN  /\ c.notified = 0
              /\ c.state = state
              /\ ~HasEvent(c.emitted, "GAME_PAUSE")
              /\ ~HasEvent(c.emitted, "GAME_RESUME")
              /\ c = Entry
    /\ state.status \in { "MENU", "PLAYING", "GAME_OVER" } =>
          LET c == Resume(Entry)
          IN  /\ c.notified = 0
              /\ c.state = state
              /\ ~HasEvent(c.emitted, "GAME_PAUSE")
              /\ ~HasEvent(c.emitted, "GAME_RESUME")
              /\ c = Entry

\* A paused game, where pause is refused and resume is not.
C33_Witness ==
    /\ state.status = "PAUSED"
    /\ Pause(Entry).notified = 0
    /\ Resume(Entry).notified = 1

\* C34: whenever the status is PLAYING or PAUSED, nextPieces has the
\* configured preview length and is the generator's preview queue; and the
\* piece that a lock sequence spawns, or that the first hold of a game
\* brings in, has the kind that was at the head of nextPieces when the call
\* was made.
C34_PreviewTruthful ==
    state.status \in { "PLAYING", "PAUSED" } =>
        /\ Len(state.nextPieces) = PREVIEW_COUNT
        /\ state.nextPieces = GetPreview(generator)
        /\ \A r \in RandomFor(generator) :
              /\ \A c \in PieceCalls(r) :
                    (HasEvent(c.emitted, "PIECE_LOCK") /\ c.state.currentPiece # Null) =>
                        c.state.currentPiece.type = Head(state.nextPieces).type
              /\ (Falling /\ state.canHold /\ state.holdPiece = Null) =>
                    Hold(Entry, r).state.currentPiece.type = Head(state.nextPieces).type

\* After a first hold and a lock, both of which spawned from the supply.
C34_Witness ==
    /\ Falling
    /\ state.holdPiece # Null
    /\ state.canHold
    /\ calls >= 2
    /\ Len(generator.drawn) >= 4

\* C35: the state object that getState returned before a call of the action
\* layer describes, after the call, the state before the call: its fields,
\* the rotation of its falling piece and the cells of its board are the
\* ones it had.
C35_SnapshotKept ==
    \A c \in AllCalls :
        /\ c.snapshot = state
        /\ c.grid = grid

\* C36: in the sequence of pieces next() returns with no reset in between,
\* once a kind has been returned at most 12 pieces of other kinds are
\* returned before it is returned again; so two consecutive occurrences of
\* a kind are separated by at most 12 pieces of other kinds.
C36_BoundedDrought ==
    drought.seen => drought.since <= 12

\* The longest drought: the kind was the first of its bag and is the last
\* of the next one.
C36_Witness ==
    /\ drought.seen
    /\ drought.since = 12
    /\ Head(GetPreview(generator)).type = drought.kind

\* The positions of step among the steps of a loop invocation.
StepsOf(k, step) == { i \in 1..Len(k.steps) : k.steps[i] = step }

\* C38: a loop invocation (the callback of a pending frame, or the one
\* start() makes itself when the loop is not running) calls the render
\* callback exactly when isDirty is true as its render step begins, at most
\* once, and leaves isDirty false.
C38_DirtyFlagRender ==
    /\ \A h \in loop.pending : \A d \in Delays : \A r \in RandomFor(generator) :
          LET dirty == LoopUpdate(Arrived(ControllerEntry, h), now + d, r).game.state.isDirty
              k == Loop(Arrived(ControllerEntry, h), now + d, r)
          IN  /\ k.rendered <= 1
              /\ k.rendered = Cardinality(StepsOf(k, "render"))
              /\ k.rendered = 1 <=> dirty
              /\ ~k.game.state.isDirty
    /\ loop.animationId = 0 =>
          \A r \in RandomFor(generator) :
              LET dirty == LoopUpdate(LoopReset(ControllerEntry, now), now, r).game.state.isDirty
                  k == LoopStart(ControllerEntry, now, r)
              IN  /\ k.rendered <= 1
                  /\ k.rendered = Cardinality(StepsOf(k, "render"))
                  /\ k.rendered = 1 <=> dirty
                  /\ ~k.game.state.isDirty

\* A game in PLAYING that has been rendered: a short frame changes nothing
\* and is not rendered, a long one takes the gravity step and is.
C38_Witness ==
    /\ Falling
    /\ ~state.isDirty
    /\ calls > 0
    /\ \E h \in loop.pending :
          /\ Loop(Arrived(ControllerEntry, h), now + 20, NoRandom).rendered = 0
          /\ Loop(Arrived(ControllerEntry, h), now + DAS_DELAY, NoRandom).rendered = 1

\* C40: a loop invocation made while the status is PLAYING polls the input
\* state machine exactly once, after its gravity update; one made in
\* another status does not poll it.
C40_PollAfterGravity ==
    \A h \in loop.pending : \A d \in Delays : \A r \in RandomFor(generator) :
        LET k == Loop(Arrived(ControllerEntry, h), now + d, r)
        IN  IF state.status = "PLAYING"
            THEN /\ Cardinality(StepsOf(k, "poll")) = 1
                 /\ \A i \in StepsOf(k, "poll") : \A j \in StepsOf(k, "gravity") : j < i
            ELSE StepsOf(k, "poll") = { }

\* C39: at most one frame request is pending at any time; while the loop
\* runs it is the one animationId names, and start() then requests nothing
\* and changes nothing; stop() leaves no request pending, and while
\* animationId is null none is pending, so that no loop invocation (with its
\* poll, gravity step and render) happens until start() is called again.
C39_SingleCallback ==
    /\ Cardinality(loop.pending) <= 1
    /\ loop.animationId = 0 => loop.pending = { }
    /\ loop.animationId # 0 =>
          /\ loop.pending = { loop.animationId }
          /\ \A r \in RandomFor(generator) :
                LoopStart(ControllerEntry, now, r) = ControllerEntry
    /\ LET k == LoopStop(ControllerEntry)
       IN  /\ k.loop.pending = { }
           /\ k.loop.animationId = 0
           /\ k.steps = << >>

\* The loop was stopped after frames had arrived.
C39_Witness ==
    /\ loop.animationId = 0
    /\ loop.requested >= 2
    /\ now > 0

\* C37: in a game that is started and then left to gravity, with every
\* requested frame arriving after a positive time, every falling piece is
\* eventually locked (the board gains its cells) and the status eventually
\* becomes GAME_OVER.
C37_GravityEndsGame ==
    /\ (state.status = "PLAYING") ~> (state.status = "GAME_OVER")
    /\ \A n \in 0..(BOARD_WIDTH * BOARD_HEIGHT) :
          (Falling /\ NonZero(grid) = n) ~> (NonZero(grid) > n)

\* The game is over with at least two pieces locked.
C37_Witness ==
    /\ state.status = "GAME_OVER"
    /\ NonZero(grid) >= 8
    /\ now > 0
    /\ keyboard = { }

====
